---- MODULE Spec2Model ----
(***************************************************************************)
(* Model of the Jarvis assistant's memory retrieval pipeline and of its    *)
(* tool-call orchestration (JarvisService.sendMessage / sendMessageStream   *)
(* of src/services/gemini.ts, the SSE route of src/server/routes/chat.ts,   *)
(* the IndexedDB store of src/unnamed/part_003, the local JarvisService of  *)
(* src/unnamed/part_001, the context assembler of AssistantView.tsx and     *)
(* the search modal of src/unnamed/part_009).  In the turns of Spec the    *)
(* store functions of src/services/supabase-db.ts are taken in the          *)
(* configuration without Supabase, where each of them delegates to the      *)
(* IndexedDB store.  SessionSpec models the chat-session cache of the       *)
(* server route, CacheSpec the cached reads and the invalidating writes of  *)
(* supabase-db.ts with Supabase, SearchSpec the keyword search of both      *)
(* stores, CosineSpec and VectorSpec the vector search of the IndexedDB     *)
(* store, TurnsSpec several turns of the assistant view with deletions      *)
(* between them, UserSpec the store module across a change of the user,     *)
(* KeySpec the API-key routes and the clients and sessions made from the    *)
(* keys, ViewSpec the sends of the input area, ChunkSpec chunkText of       *)
(* src/services/fileExtraction.ts.                                          *)
(*                                                                         *)
(* Strings are sequences of one-character strings.  A streamed text is a    *)
(* sequence of chunk tokens (every chunk text is a distinct non-empty       *)
(* string), so string concatenation is sequence concatenation.  A sequence  *)
(* built by a function constructor is concatenated with <<>> to have it     *)
(* evaluated once.                                                          *)
(***************************************************************************)
EXTENDS Integers, Sequences, FiniteSets, TLC

\* ------------------------------------------------------------------ bounds
MaxRequests == 3      \* model requests (fetches) issued in one turn
MaxChunks == 2        \* text chunks the model streams in one turn
MaxFailures == 1      \* failures per turn: failed request, broken read, error event
MaxToolRounds == 2    \* model responses of one turn that carry tool calls
MaxFaults == 1        \* failed embedding requests and store writes per turn
MaxUploadChunks == 2  \* text chunks extracted from an uploaded file

\* ------------------------------------------------------- program constants
MAX_FUNCTION_RESPONSES == 10   \* validateMessageStream / validateFunctionResponse
ContextLimit == 8              \* combined.slice(0, 8)
ModalLimit == 10               \* combined.slice(0, 10) in the search modal
VectorLimit == 5               \* vectorSearchMemories(queryEmbedding, limit = 5)
MinKeywordLen == 2             \* filter(k => k.length > 2)

\* An optional JavaScript value: None is undefined, Some(v) is the value v.
None == <<>>
Some(v) == <<v>>
IsSome(o) == Len(o) > 0
Val(o) == o[1]

\* const v = e; F(v): e is evaluated once and F works on its value
Bind(e, F(_)) == CHOOSE r \in {F(v) : v \in {e}} : TRUE

\* ----------------------------------------------------------------- strings
RECURSIVE SeqSum(_)
SeqSum(s) ==
  Bind(s, LAMBDA v : IF v = <<>> THEN 0 ELSE v[1] + SeqSum(Tail(v)))

toLowerCase(s) ==
  LET LowerChar(c) == CASE c = "A" -> "a" [] c = "C" -> "c" [] OTHER -> c
  IN Bind(s, LAMBDA v : [i \in 1..Len(v) |-> LowerChar(v[i])] \o <<>>)

\* String.prototype.includes
includes(s, sub) ==
  Bind(<<s, sub>>, LAMBDA v :
    \E i \in 0..(Len(v[1]) - Len(v[2])) : SubSeq(v[1], i + 1, i + Len(v[2])) = v[2])

\* s.split(/\s+/): maximal runs of non-space characters; a leading or a
\* trailing run of spaces yields an empty first or last element.
RECURSIVE SplitFrom(_, _, _)
SplitFrom(s, i, cur) ==
  LET IsSpace(c) == c = " "
  IN
  Bind(cur, LAMBDA c :
    IF i > Len(s) THEN <<c>>
    ELSE IF IsSpace(s[i])
         THEN IF i > 1 /\ IsSpace(s[i - 1])
              THEN SplitFrom(s, i + 1, c)
              ELSE <<c>> \o SplitFrom(s, i + 1, <<>>)
         ELSE SplitFrom(s, i + 1, Append(c, s[i])))

split(s) == Bind(s, LAMBDA v : SplitFrom(v, 1, <<>>))

\* Array.prototype.slice(0, n)
slice(s, n) == Bind(s, LAMBDA v : SubSeq(v, 1, IF Len(v) < n THEN Len(v) ELSE n))

\* Array.prototype.sort with a comparator (stable since ES2019):
\* Before(a, b) holds when the comparator puts a strictly before b.
StableSort(s, Before(_, _)) ==
  Bind(s, LAMBDA v :
    LET n == Len(v)
        rank(i) == 1 + Cardinality({j \in 1..n :
                         \/ Before(v[j], v[i])
                         \/ (~Before(v[i], v[j]) /\ j < i)})
    IN [p \in 1..n |-> v[CHOOSE i \in 1..n : rank(i) = p]] \o <<>>)

\* ------------------------------------------------------ the Memory Store
\* A Memory (src/unnamed/part_003, addMemory): every stored record has all
\* ten fields; an absent optional field holds None.
cAcme == <<"a", "c", "m", "e">>
cDog == <<"d", "o", "g">>
cNote == <<"n", "o", "t", "e">>
cWork == <<"w", "o", "r", "k">>
cFact == <<"f", "a", "c", "t">>
cGeneral == <<"g", "e", "n">>
cCatPng == <<"c", "a", "t">>

\* the stores a turn may start from (records in key order)
Corpora ==
  LET cPets == <<"p", "e", "t", "s">>
      Rec1 == [id |-> 1, content |-> <<"a", "t", " ", "A", "c", "m", "e">>,
               category |-> cWork, tags |-> <<<<"j", "o", "b">>>>, timestamp |-> 3,
               type |-> "text", mediaData |-> None, mediaMimeType |-> None,
               mediaName |-> None, embedding |-> Some(<<1, 0>>)]
      Rec2 == [id |-> 2, content |-> <<"m", "y", " ", "C", "a", "t">>,
               category |-> cPets, tags |-> <<>>, timestamp |-> 2,
               type |-> "image", mediaData |-> Some("BASE64"),
               mediaMimeType |-> Some(<<"image", "png">>),
               mediaName |-> Some(cCatPng), embedding |-> Some(<<0, 1>>)]
      Rec3 == [id |-> 3, content |-> <<"a", "c", "m", "e", " ", "i", "d">>,
               category |-> cFact, tags |-> <<cAcme>>, timestamp |-> 2,
               type |-> "text", mediaData |-> None, mediaMimeType |-> None,
               mediaName |-> None, embedding |-> None]
  IN {<<Rec1, Rec2, Rec3>>}

\* objectStore.add with autoIncrement: the new key is one above the largest
addMemory(st, now, content, category, tags, type, mediaData, mediaMimeType, mediaName, embedding) ==
  Append(st, [id |-> (IF st = <<>> THEN 1 ELSE st[Len(st)].id + 1),
              content |-> content,
              category |-> (IF IsSome(category) THEN Val(category) ELSE cGeneral),
              tags |-> (IF IsSome(tags) THEN Val(tags) ELSE <<>>),
              timestamp |-> now, type |-> type, mediaData |-> mediaData,
              mediaMimeType |-> mediaMimeType, mediaName |-> mediaName,
              embedding |-> embedding])

\* The rounding of dotProduct / (Math.sqrt(a) * Math.sqrt(b)) in IEEE 754
\* double precision, for the vectors of the model (two components, each of
\* them -1, 0 or 1, so a and b are 1 or 2): the number of representable
\* doubles by which the computed quotient lies above (+) or below (-) the
\* double nearest to the exact quotient.  Math.sqrt(2) * Math.sqrt(2) is
\* 2.0000000000000004, so 2 / that is 0.9999999999999998, two doubles below 1.
roundingOf(dotProduct, a, b) ==
  CASE a = 2 /\ b = 2 /\ dotProduct = 2 -> -2
    [] a = 2 /\ b = 2 /\ dotProduct = -2 -> 2
    [] a + b = 3 /\ dotProduct = 1 -> -1
    [] a + b = 3 /\ dotProduct = -1 -> 1
    [] OTHER -> 0

\* cosineSimilarity with the magnitude of vecA taken for both vectors
cosineSimilarityMutOneMagnitude(vecA, vecB) ==
  Bind(<<SeqSum([i \in 1..Len(vecA) |-> vecA[i] * vecA[i]]),
         SeqSum([i \in 1..Len(vecA) |-> vecA[i] * vecA[i]])>>, LAMBDA mag2 :
    IF mag2[1] = 0 \/ mag2[2] = 0 THEN [n |-> 0, d |-> 1, u |-> 0]
    ELSE Bind(SeqSum([i \in 1..Len(vecA) |-> vecA[i] * vecB[i]]), LAMBDA dotProduct :
           [n |-> (IF dotProduct < 0 THEN -1 ELSE 1) * dotProduct * dotProduct,
            d |-> mag2[1] * mag2[2],
            u |-> roundingOf(dotProduct, mag2[1], mag2[2])]))

\* cosineSimilarity: the record [n, d, u] stands for the double that lies u
\* doubles above the one nearest to the number whose signed square is n / d
\* (d > 0)
cosineSimilarity(vecA, vecB) ==
  Bind(<<SeqSum([i \in 1..Len(vecA) |-> vecA[i] * vecA[i]]),
         SeqSum([i \in 1..Len(vecB) |-> vecB[i] * vecB[i]])>>, LAMBDA mag2 :
    IF mag2[1] = 0 \/ mag2[2] = 0 THEN [n |-> 0, d |-> 1, u |-> 0]
    ELSE Bind(SeqSum([i \in 1..Len(vecA) |-> vecA[i] * vecB[i]]), LAMBDA dotProduct :
           [n |-> (IF dotProduct < 0 THEN -1 ELSE 1) * dotProduct * dotProduct,
            d |-> mag2[1] * mag2[2],
            u |-> roundingOf(dotProduct, mag2[1], mag2[2])]))

\* vectorSearchMemories without the sort by score
vectorSearchMemoriesMutNoSort(st, queryEmbedding, limit) ==
  LET \* getAllMemories: getAll() in key order, then sorted by timestamp descending
      getAllMemories(rows) == StableSort(rows, LAMBDA a, b : a.timestamp > b.timestamp)
      ScoreGreater(x, y) ==
        \/ x.n * y.d > y.n * x.d
        \/ x.n * y.d = y.n * x.d /\ x.u > y.u
  IN
  Bind(queryEmbedding, LAMBDA q :
  Bind(SelectSeq(getAllMemories(st), LAMBDA m : IsSome(m.embedding)), LAMBDA withEmb :
  Bind([i \in 1..Len(withEmb) |->
          [memory |-> withEmb[i],
           score |-> cosineSimilarity(q, Val(withEmb[i].embedding))]] \o <<>>, LAMBDA scored :
  Bind(scored, LAMBDA sorted :
    [i \in 1..Len(slice(sorted, limit)) |-> sorted[i].memory] \o <<>>))))

\* vectorSearchMemories: the records with an embedding, by descending similarity
vectorSearchMemories(st, queryEmbedding, limit) ==
  LET \* getAllMemories: getAll() in key order, then sorted by timestamp descending
      getAllMemories(rows) == StableSort(rows, LAMBDA a, b : a.timestamp > b.timestamp)
      ScoreGreater(x, y) ==
        \/ x.n * y.d > y.n * x.d
        \/ x.n * y.d = y.n * x.d /\ x.u > y.u
  IN
  Bind(queryEmbedding, LAMBDA q :
  Bind(SelectSeq(getAllMemories(st), LAMBDA m : IsSome(m.embedding)), LAMBDA withEmb :
  Bind([i \in 1..Len(withEmb) |->
          [memory |-> withEmb[i],
           score |-> cosineSimilarity(q, Val(withEmb[i].embedding))]] \o <<>>, LAMBDA scored :
  Bind(StableSort(scored, LAMBDA a, b : ScoreGreater(a.score, b.score)), LAMBDA sorted :
    [i \in 1..Len(slice(sorted, limit)) |-> sorted[i].memory] \o <<>>))))

\* searchMemories with a sort by score alone
searchMemoriesMutScoreOnly(st, query) ==
  Bind(toLowerCase(query), LAMBDA lowerQuery :
  Bind(SelectSeq(split(lowerQuery), LAMBDA k : Len(k) > MinKeywordLen), LAMBDA keywords :
    LET tagHit(mem, k) == \E t \in 1..Len(mem.tags) : includes(toLowerCase(mem.tags[t]), k)
        mediaNameOf(mem) == IF IsSome(mem.mediaName) THEN toLowerCase(Val(mem.mediaName)) ELSE <<>>
        matches(mem) ==
          IF keywords = <<>>
          THEN \/ includes(toLowerCase(mem.content), lowerQuery)
               \/ includes(toLowerCase(mem.category), lowerQuery)
               \/ tagHit(mem, lowerQuery)
          ELSE \E j \in 1..Len(keywords) :
                 \/ includes(toLowerCase(mem.content), keywords[j])
                 \/ includes(toLowerCase(mem.category), keywords[j])
                 \/ tagHit(mem, keywords[j])
                 \/ includes(mediaNameOf(mem), keywords[j])
        scoreOf(mem) ==
          SeqSum([j \in 1..Len(keywords) |->
                    (IF includes(toLowerCase(mem.content), keywords[j]) THEN 1 ELSE 0)
                    + (IF includes(toLowerCase(mem.category), keywords[j]) THEN 1 ELSE 0)
                    + (IF tagHit(mem, keywords[j]) THEN 1 ELSE 0)] \o <<>>)
    IN Bind(SelectSeq(st, matches), LAMBDA filtered :
       Bind([i \in 1..Len(filtered) |->
               [mem |-> filtered[i], score |-> scoreOf(filtered[i])]] \o <<>>, LAMBDA scored :
       Bind(StableSort(scored, LAMBDA a, b :
                         b.score - a.score < 0), LAMBDA sorted :
         [i \in 1..Len(sorted) |-> sorted[i].mem] \o <<>>)))))

\* searchMemories of the IndexedDB store (keyword search)
searchMemories(st, query) ==
  Bind(toLowerCase(query), LAMBDA lowerQuery :
  Bind(SelectSeq(split(lowerQuery), LAMBDA k : Len(k) > MinKeywordLen), LAMBDA keywords :
    LET tagHit(mem, k) == \E t \in 1..Len(mem.tags) : includes(toLowerCase(mem.tags[t]), k)
        mediaNameOf(mem) == IF IsSome(mem.mediaName) THEN toLowerCase(Val(mem.mediaName)) ELSE <<>>
        matches(mem) ==
          IF keywords = <<>>
          THEN \/ includes(toLowerCase(mem.content), lowerQuery)
               \/ includes(toLowerCase(mem.category), lowerQuery)
               \/ tagHit(mem, lowerQuery)
          ELSE \E j \in 1..Len(keywords) :
                 \/ includes(toLowerCase(mem.content), keywords[j])
                 \/ includes(toLowerCase(mem.category), keywords[j])
                 \/ tagHit(mem, keywords[j])
                 \/ includes(mediaNameOf(mem), keywords[j])
        scoreOf(mem) ==
          SeqSum([j \in 1..Len(keywords) |->
                    (IF includes(toLowerCase(mem.content), keywords[j]) THEN 1 ELSE 0)
                    + (IF includes(toLowerCase(mem.category), keywords[j]) THEN 1 ELSE 0)
                    + (IF tagHit(mem, keywords[j]) THEN 1 ELSE 0)] \o <<>>)
    IN Bind(SelectSeq(st, matches), LAMBDA filtered :
       Bind([i \in 1..Len(filtered) |->
               [mem |-> filtered[i], score |-> scoreOf(filtered[i])]] \o <<>>, LAMBDA scored :
       Bind(StableSort(scored, LAMBDA a, b :
                         IF b.score # a.score THEN b.score - a.score < 0
                         ELSE b.mem.timestamp - a.mem.timestamp < 0), LAMBDA sorted :
         [i \in 1..Len(sorted) |-> sorted[i].mem] \o <<>>)))))

\* ------------------------------------------------- tools of the orchestrator
\* An attachment's mimeType "major/minor" is the pair <<major, minor>>.
Attachments == {<<>>, <<[data |-> "IMGDATA", mimeType |-> <<"image", "png">>, name |-> cCatPng]>>}

\* An argument the model left out is a field the args record does not have.
Has(args, field) == field \in DOMAIN args

\* the calls of batch b as response number r of the turn carries them
WithIds(b, r) ==
  [i \in 1..Len(b) |-> [id |-> <<r, i>>, name |-> b[i].name, args |-> b[i].args]] \o <<>>

\* what the collaborators answer during one tool execution:
\* embed = None when the embedding request fails, Some(v) when it yields v;
\* addOk = FALSE when the Memory Store's create throws
ToolEnvs ==
  LET \* the vectors the embedding provider may answer with
      QueryVectors == {<<1, 1>>}
  IN [embed : {None} \cup {Some(v) : v \in QueryVectors}, addOk : BOOLEAN]

\* the answers that matter to a call: only save_memory writes to the store
\* (and when its write fails the embedding it was given is of no account),
\* an unknown tool asks nothing (so nothing fails for it), and for a text
\* that is missing no embedding request leaves the client
EnvsFor(call) ==
  {env \in ToolEnvs :
     /\ call.name # "save_memory" => env.addOk
     /\ ~env.addOk => IsSome(env.embed)
     /\ call.name \notin {"save_memory", "search_memory"} => IsSome(env.embed)
     /\ (~Has(call.args, "content") /\ ~Has(call.args, "query")) => IsSome(env.embed)}

\* media fields and type taken from the first attachment of the call
mediaOf(attachments) ==
  IF Len(attachments) > 0
  THEN LET att == attachments[1]
       IN [mediaData |-> Some(att.data), mediaMimeType |-> Some(att.mimeType),
           mediaName |-> Some(att.name),
           type |-> (IF att.mimeType[1] = "image" THEN "image"
                     ELSE IF att.mimeType[1] = "audio" THEN "audio" ELSE "file")]
  ELSE [mediaData |-> None, mediaMimeType |-> None, mediaName |-> None, type |-> "text"]

\* combined = [...vectorResults]; keyword results pushed unless their id is present
RECURSIVE merge(_, _)
mergeMutConcat(combined, keywordResults) == combined \o keywordResults

merge(combined, keywordResults) ==
  Bind(<<combined, keywordResults>>, LAMBDA v :
    IF v[2] = <<>> THEN v[1]
    ELSE LET mem == v[2][1]
         IN merge(IF \E i \in 1..Len(v[1]) : v[1][i].id = mem.id
                  THEN v[1] ELSE Append(v[1], mem),
                  Tail(v[2])))

sanitizeMutSpread(m) == m

\* the object literal of "Strip heavy data"
sanitize(m) ==
  LET \* new Date(ts).toISOString()
      toISOString(ts) == <<"iso", ts>>
  IN
  [id |-> m.id, content |-> m.content, category |-> m.category, tags |-> m.tags,
   timestamp |-> toISOString(m.timestamp), type |-> m.type, mediaName |-> m.mediaName]

\* JarvisService.getEmbedding of the proxy client throws on a failed or empty
\* answer; the local one (part_001) returns [] instead.
getEmbedding(env) == env.embed
getEmbeddingLocal(env) == IF IsSome(env.embed) THEN env.embed ELSE Some(<<>>)

\* the search_memory branch: what it finds for a query
searchCombined(st, query, env) ==
  Bind(getEmbedding(env), LAMBDA embedding :
    LET vectorResults == IF IsSome(embedding)
                         THEN vectorSearchMemories(st, Val(embedding), VectorLimit) ELSE <<>>
        keywordResults == searchMemories(st, query)
    IN merge(vectorResults, keywordResults))

searchCombinedLocal(st, query, env) ==
  LET embedding == Val(getEmbeddingLocal(env))
      vectorResults == vectorSearchMemories(st, embedding, VectorLimit)
      keywordResults == searchMemories(st, query)
  IN merge(vectorResults, keywordResults)

\* the message of the error a failing create throws
AddMemoryError == "addMemory failed"

catchResultMutThrow(message) == [thrown |-> message]

\* catch (e) { result = { error: e.message } }
catchResult(message) == [error |-> message]

\* One iteration of "for (const call of functionCalls)": the tool result, the
\* store afterwards, what onToolResult is handed where the caller has one
\* (None when the tool does not call it), for a search the merged list, whether the catch around the tool ran, whether an
\* embedding request and a call of the Memory Store were made, and whether the
\* tool never returned.  searchMemories(undefined) throws at query.toLowerCase()
\* inside the request's onsuccess handler (part_003:103-105), so its promise
\* is never settled and the awaiting tool loop stays where it is.
executeTool(call, attachments, st, now, env, local) ==
  LET Arg(args, field) == IF Has(args, field) THEN Some(args[field]) ELSE None
      \* the content of a record created from an args.content that is undefined
      Undefined == <<"undefined">>
      \* getEmbedding(text) for a text that may be undefined: the proxy client's
      \* text.substring throws before the request is made (and the throw is passed
      \* on); the local client's request is made without a text and fails
      getEmbeddingOf(text) ==
        IF local THEN getEmbeddingLocal(IF IsSome(text) THEN env ELSE [env EXCEPT !.embed = None])
        ELSE IF IsSome(text) THEN getEmbedding(env) ELSE None
      sanitizedResults(combined) ==
        Bind(slice(combined, ContextLimit), LAMBDA top :
          [i \in 1..Len(top) |-> sanitize(top[i])] \o <<>>)
  IN
  IF call.name = "save_memory"
  THEN LET content == Arg(call.args, "content")
           category == IF Has(call.args, "category") THEN call.args.category ELSE None
           embedding == getEmbeddingOf(content)
           media == mediaOf(attachments)
           asked == [embedRequested |-> local \/ IsSome(content), storeCalled |-> TRUE,
                     hung |-> FALSE]
       IN IF env.addOk
          THEN Bind(addMemory(st, now, IF IsSome(content) THEN Val(content) ELSE Undefined,
                              category, call.args.tags,
                              media.type, media.mediaData, media.mediaMimeType,
                              media.mediaName, embedding), LAMBDA st2 :
                 [result |-> [success |-> TRUE, memoryId |-> st2[Len(st2)].id,
                              status |-> IF local \/ IsSome(embedding)
                                         THEN "Memory saved with vector embedding."
                                         ELSE "Memory saved (embedding unavailable)."],
                  store |-> st2, ui |-> None, combined |-> None, caught |-> FALSE] @@ asked)
          ELSE [result |-> catchResult(AddMemoryError), store |-> st, ui |-> None,
                combined |-> None, caught |-> TRUE] @@ asked
  ELSE IF call.name = "search_memory" /\ ~Has(call.args, "query")
  THEN [result |-> None, store |-> st, ui |-> None, combined |-> None, caught |-> FALSE,
        embedRequested |-> local, storeCalled |-> TRUE, hung |-> TRUE]
  ELSE IF call.name = "search_memory"
  THEN Bind(IF local THEN searchCombinedLocal(st, call.args.query, env)
            ELSE searchCombined(st, call.args.query, env), LAMBDA combined :
         [result |-> [found |-> Len(combined), results |-> sanitizedResults(combined)],
          store |-> st,
          ui |-> Some([found |-> Len(combined), results |-> slice(combined, ContextLimit)]),
          combined |-> Some(combined), caught |-> FALSE,
          embedRequested |-> TRUE, storeCalled |-> TRUE, hung |-> FALSE])
  ELSE [result |-> [error |-> "Unknown tool"], store |-> st, ui |-> None, combined |-> None,
        caught |-> FALSE, embedRequested |-> FALSE, storeCalled |-> FALSE, hung |-> FALSE]

functionResponseMutBare(call, toolResult) ==
  [id |-> call.id, name |-> call.name, response |-> toolResult]

\* functionResponses.push({ id, name, response: { result } })
functionResponse(call, toolResult) ==
  [id |-> call.id, name |-> call.name, response |-> [result |-> toolResult]]

\* ------------------------------------------- context assembly (AssistantView)
\* s matches /a.*b/: an occurrence of b starts at or after the end of one of a
includesThen(s, a, b) ==
  Bind(s, LAMBDA v :
    \E i \in 0..(Len(v) - Len(a)) :
      /\ SubSeq(v, i + 1, i + Len(a)) = a
      /\ includes(SubSeq(v, i + Len(a) + 1, Len(v)), b))

\* the words of s: its maximal runs of word characters (/\b\w+\b/g)
words(s) == SelectSeq(split(s), LAMBDA w : Len(w) > 0)

cWhat == <<"w", "h", "a", "t">>
cWho == <<"w", "h", "o">>
cWhere == <<"w", "h", "e", "r", "e">>

\* /x (v1|v2|...) (i|we)/
questionAbout(lowerText, x, verbs) ==
  LET Subjects == {<<"i">>, <<"w", "e">>}
  IN
  \E v \in verbs, sub \in Subjects : includes(lowerText, x \o <<" ">> \o v \o <<" ">> \o sub)

\* the five tests of isPersonalQuestion on text.toLowerCase()
isPersonalQuestion(text) ==
  LET PersonalPronouns == {<<"i">>, <<"m", "e">>, <<"m", "y">>, <<"w", "e">>,
                          <<"o", "u", "r">>, <<"m", "y", "s", "e", "l", "f">>}
      WhatVerbs == {<<"d", "o">>, <<"d", "o", "e", "s">>, <<"d", "i", "d">>,
                    <<"i", "s">>, <<"a", "r", "e">>, <<"w", "a", "s">>,
                    <<"w", "e", "r", "e">>}
      WhoVerbs == {<<"a", "m">>, <<"a", "r", "e">>}
      WhereVerbs == {<<"d", "o">>, <<"d", "o", "e", "s">>, <<"d", "i", "d">>}
      RecallVerbs == {<<"t", "e", "l", "l">>,
                      <<"r", "e", "m", "e", "m", "b", "e", "r">>,
                      <<"r", "e", "c", "a", "l", "l">>, <<"k", "n", "o", "w">>}
      RecallObjects == {<<"a", "b", "o", "u", "t">>, <<"m", "e">>, <<"m", "y">>,
                        <<"i">>}
  IN
  Bind(toLowerCase(text), LAMBDA lowerText :
    \/ Bind(words(lowerText), LAMBDA ws : \E i \in 1..Len(ws) : ws[i] \in PersonalPronouns)
    \/ questionAbout(lowerText, cWhat, WhatVerbs)
    \/ questionAbout(lowerText, cWho, WhoVerbs)
    \/ questionAbout(lowerText, cWhere, WhereVerbs)
    \/ \E v \in RecallVerbs, o \in RecallObjects : includesThen(lowerText, v, o))

\* expandQueryForSearch: the first matching pattern appends its related terms
expandQueryForSearch(query) ==
  LET ExpansionWork ==
        <<" ", "w", "o", "r", "k", " ", "j", "o", "b", " ", "c", "o", "m", "p", "a",
          "n", "y", " ", "e", "m", "p", "l", "o", "y", "e", "r", " ", "p", "o", "s",
          "i", "t", "i", "o", "n", " ", "r", "o", "l", "e", " ", "o", "r", "g", "a",
          "n", "i", "z", "a", "t", "i", "o", "n", " ", "w", "o", "r", "k", "p", "l",
          "a", "c", "e">>
      ExpansionProfession ==
        <<" ", "p", "r", "o", "f", "e", "s", "s", "i", "o", "n", " ", "o", "c", "c",
          "u", "p", "a", "t", "i", "o", "n", " ", "c", "a", "r", "e", "e", "r", " ",
          "j", "o", "b", " ", "r", "o", "l", "e", " ", "w", "o", "r", "k", " ", "p",
          "o", "s", "i", "t", "i", "o", "n", " ", "t", "i", "t", "l", "e">>
      ExpansionPreference ==
        <<" ", "p", "r", "e", "f", "e", "r", "e", "n", "c", "e", "s", " ", "f", "a",
          "v", "o", "r", "i", "t", "e", "s", " ", "l", "i", "k", "e", "s", " ", "i",
          "n", "t", "e", "r", "e", "s", "t", "s", " ", "h", "o", "b", "b", "i", "e",
          "s">>
      ExpansionLocation ==
        <<" ", "l", "o", "c", "a", "t", "i", "o", "n", " ", "a", "d", "d", "r", "e",
          "s", "s", " ", "c", "i", "t", "y", " ", "r", "e", "s", "i", "d", "e", "n",
          "c", "e", " ", "h", "o", "m", "e">>
      ExpansionIdentity ==
        <<" ", "n", "a", "m", "e", " ", "i", "d", "e", "n", "t", "i", "t", "y", " ",
          "p", "e", "r", "s", "o", "n", "a", "l", " ", "i", "n", "f", "o", "r", "m",
          "a", "t", "i", "o", "n">>
      cLike == <<"l", "i", "k", "e">>
      cDo == <<"d", "o">>
      cLive == <<"l", "i", "v", "e">>
      cAm == <<"a", "m">>
  IN
  Bind(toLowerCase(query), LAMBDA q :
    LET any(ws) == \E w \in ws : includes(q, w)
    IN IF includesThen(q, cWhere, cWork) \/ includesThen(q, cWork, cWhere)
          \/ any({<<"c", "o", "m", "p", "a", "n", "y">>,
                <<"e", "m", "p", "l", "o", "y", "e", "r">>})
       THEN query \o ExpansionWork
       ELSE IF includesThen(q, cWhat, cDo) \/ any({<<"p", "r", "o", "f", "e", "s", "s", "i", "o", "n">>,
                <<"o", "c", "c", "u", "p", "a", "t", "i", "o", "n">>,
                <<"c", "a", "r", "e", "e", "r">>})
       THEN query \o ExpansionProfession
       ELSE IF includesThen(q, cWhat, cLike) \/ any({<<"p", "r", "e", "f", "e", "r", "e", "n", "c", "e">>,
                <<"f", "a", "v", "o", "r", "i", "t", "e">>,
                <<"e", "n", "j", "o", "y">>})
       THEN query \o ExpansionPreference
       ELSE IF includesThen(q, cWhere, cLive) \/ any({<<"l", "o", "c", "a", "t", "i", "o", "n">>,
                <<"a", "d", "d", "r", "e", "s", "s">>,
                <<"c", "i", "t", "y">>})
       THEN query \o ExpansionLocation
       ELSE IF includesThen(q, cWho, cAm) \/ any({<<"n", "a", "m", "e">>,
                <<"i", "d", "e", "n", "t", "i", "t", "y">>})
       THEN query \o ExpansionIdentity
       ELSE query)

\* extractKeywords: the words of three characters or more that are no stop words
extractKeywords(query) ==
  LET StopWords == {<<"t", "h", "e">>, <<"a", "n", "d">>, <<"o", "r">>,
                    <<"b", "u", "t">>, <<"i", "n">>, <<"o", "n">>, <<"a", "t">>,
                    <<"t", "o">>, <<"f", "o", "r">>, <<"o", "f">>,
                    <<"w", "i", "t", "h">>, <<"b", "y">>, <<"f", "r", "o", "m">>,
                    <<"d", "o">>, <<"d", "o", "e", "s">>, <<"d", "i", "d">>,
                    <<"i", "s">>, <<"a", "r", "e">>, <<"w", "a", "s">>,
                    <<"w", "e", "r", "e">>, <<"w", "h", "a", "t">>,
                    <<"w", "h", "e", "r", "e">>, <<"w", "h", "o">>,
                    <<"w", "h", "e", "n">>, <<"w", "h", "y">>, <<"h", "o", "w">>}
  IN
  SelectSeq(words(toLowerCase(query)), LAMBDA w : Len(w) >= 3 /\ w \notin StopWords)

ContextContentLimit == 700     \* m.content.substring(0, 700)

Ids(rs) == Bind(rs, LAMBDA v : [i \in 1..Len(v) |-> v[i].id] \o <<>>)

\* allKeywordResults: the results of each query in turn, skipping known ids
RECURSIVE allKeywordResults(_, _, _)
allKeywordResults(st, queries, acc) ==
  Bind(<<queries, acc>>, LAMBDA v :
    IF v[1] = <<>> THEN v[2]
    ELSE allKeywordResults(st, Tail(v[1]), merge(v[2], searchMemories(st, v[1][1]))))

keywordQueries(text) == <<text, expandQueryForSearch(text)>> \o extractKeywords(text)

\* contextString: one entry per memory of topResults between header and footer
\* (<<>> is the empty string)
contextBlock(topResults) ==
  Bind(topResults, LAMBDA top :
    [i \in 1..Len(top) |->
       [memory |-> i,
        content |-> slice(top[i].content, ContextContentLimit),
        ellipsis |-> Len(top[i].content) > ContextContentLimit]] \o <<>>)

\* The try block of handleSendMessage for a personal question: the context
\* string, what onContextUpdate is handed (None when not called), whether the
\* keyword searches ran to their end, and the merged list. A throw of the
\* embedding request, of the vector search or of a keyword search leaves the
\* try block before contextString is assigned.
assembleContextMutKeyword(st, text, env, searchFails) ==
  Bind(slice(allKeywordResults(st, keywordQueries(text), <<>>), ContextLimit), LAMBDA topResults :
    [context |-> contextBlock(topResults), published |-> Some(topResults),
     keywordRan |-> TRUE, combined |-> topResults])

assembleContext(st, text, env, searchFails) ==
  Bind(getEmbedding(env), LAMBDA queryEmbedding :
    IF ~IsSome(queryEmbedding) \/ searchFails # "none"
    THEN [context |-> <<>>, published |-> None, keywordRan |-> FALSE, combined |-> <<>>]
    ELSE Bind(merge(vectorSearchMemories(st, Val(queryEmbedding), VectorLimit),
                    allKeywordResults(st, keywordQueries(text), <<>>)), LAMBDA combined :
           IF Len(combined) > 0
           THEN Bind(slice(combined, ContextLimit), LAMBDA topResults :
                  [context |-> contextBlock(topResults), published |-> Some(topResults),
                   keywordRan |-> TRUE, combined |-> combined])
           ELSE [context |-> <<>>, published |-> None, keywordRan |-> TRUE,
                 combined |-> combined]))

\* the search modal's debounced search: keyword search first, vector search in
\* a try of its own, the first ten of the merged list
modalSearch(st, query, env) ==
  Bind(getEmbedding(env), LAMBDA embedding :
    LET keywordResults == searchMemories(st, query)
        vectorResults == IF IsSome(embedding)
                         THEN vectorSearchMemories(st, Val(embedding), VectorLimit)
                         ELSE <<>>
    IN slice(merge(vectorResults, keywordResults), ModalLimit))

\* what one memory search did: where, for which query, whether its embedding
\* request failed, whether a keyword search ran, the ids it found, the ids
\* of the keyword matches in the store it searched and the ids of its vector
\* results
SearchObs(site, queries, env, st, ran, found) ==
  Some([site |-> site, embedFailed |-> ~IsSome(env.embed), keywordRan |-> ran,
        found |-> Ids(found), keyword |-> Ids(allKeywordResults(st, queries, <<>>)),
        vector |-> IF site = "local"
                   THEN Ids(vectorSearchMemories(st, Val(getEmbeddingLocal(env)), VectorLimit))
                   ELSE IF IsSome(env.embed)
                   THEN Ids(vectorSearchMemories(st, Val(env.embed), VectorLimit))
                   ELSE <<>>])

\* what is observed of one attempt to create a memory: where it was made,
\* whether its embedding request failed, the record it added to the store
\* (None when it added none) and the tool result it reported (None outside a
\* tool call)
SaveObs(site, env, before, after, reported) ==
  [site |-> site, embedFailed |-> ~IsSome(env.embed),
   record |-> IF Len(after) > Len(before) THEN Some(after[Len(after)]) ELSE None,
   reported |-> reported]

\* ------------------------------------------------ manual entries and uploads
cUploaded == <<"u", "p", "l", "o", "a", "d", "e", "d">>

\* handleAddLog of the diary: the embedding is requested only with an API key,
\* a failed request is logged, and the entry is created with what there is; a
\* failing create lands in the outer catch
addLog(st, now, newLogText, userHasApiKey, env) ==
  LET cDiary == <<"d", "i", "a", "r", "y">>
      cManual == <<"m", "a", "n", "u", "a", "l">>
  IN
  LET embedding == IF userHasApiKey THEN getEmbedding(env) ELSE None
  IN IF env.addOk
     THEN addMemory(st, now, newLogText, Some(cDiary), Some(<<cManual>>), "text",
                    None, None, None, embedding)
     ELSE st

\* the loop of handleFileUpload over the chunks of one file, from chunk i on:
\* a chunk whose embedding request fails is skipped ("continue"), an API key
\* failure leaves the loop ("break"); r holds the store, the clock and the
\* observations so far
RECURSIVE uploadChunks(_, _, _, _)
uploadChunks(r, name, i, outcomes) ==
  LET cFileContent == <<"f", "i", "l", "e", "-", "c", "o", "n", "t", "e", "n", "t">>
      Digit(n) == CASE n = 1 -> "1" [] n = 2 -> "2" [] n = 3 -> "3" [] OTHER -> "9"
      ChunkEnv(o) == [embed |-> IF o = "ok" THEN Some(<<1, 1>>) ELSE None, addOk |-> TRUE]
  IN
  Bind(r, LAMBDA v :
    IF i > Len(outcomes) THEN v
    ELSE LET env == ChunkEnv(outcomes[i])
             saved == addMemory(v.store, v.clock, cNote \o <<" ", Digit(i)>>, Some(cGeneral),
                                Some(<<cUploaded, cFileContent>>), "text", None, None,
                                Some(name \o <<" ", Digit(i)>>), env.embed)
         IN IF outcomes[i] = "ok"
            THEN uploadChunks([store |-> saved, clock |-> v.clock + 1,
                               saves |-> Append(v.saves,
                                                SaveObs("upload", env, v.store, saved, None))],
                              name, i + 1, outcomes)
            ELSE IF outcomes[i] = "apikey"
            THEN [v EXCEPT !.saves = Append(@, SaveObs("upload", env, v.store, v.store, None))]
            ELSE uploadChunks([v EXCEPT !.saves = Append(@, SaveObs("upload", env, v.store,
                                                                     v.store, None))],
                              name, i + 1, outcomes))

\* handleFileUpload for one selected file: the file itself is created as a
\* memory (with or without an embedding), then its chunks
fileUpload(st, now, file, fileEnv, stillHasApiKey, outcomes) ==
  LET cFile == <<"f", "i", "l", "e">>
  IN
  LET media == mediaOf(<<file>>)
      withFile == addMemory(st, now, cFile \o <<" ">> \o file.name, Some(cGeneral),
                            Some(<<cUploaded, cFile>>), media.type, media.mediaData,
                            media.mediaMimeType, media.mediaName, getEmbedding(fileEnv))
      r == [store |-> withFile, clock |-> now + 1,
            saves |-> <<SaveObs("upload", fileEnv, st, withFile, None)>>]
  IN IF stillHasApiKey THEN uploadChunks(r, file.name, 1, outcomes) ELSE r

\* what the user may send: a text and its attachments
UserInputs == {[text |-> <<"m", "y", " ", "a", "c", "m", "e">>, att |-> <<>>],
               [text |-> cDog,
                att |-> <<[data |-> "IMGDATA", mimeType |-> <<"image", "png">>,
                           name |-> cCatPng]>>]}

\* ------------------------------------------------------------------ state
VARIABLES
  store,       \* the Memory Store: records in key order
  clock,       \* Date.now()
  kind,        \* the operation in progress: "idle", "prompt" (API key missing),
               \* "assembled", "stream", "send", "local", "modal", "diary" or
               \* "upload"
  frames,      \* the client's stack of streamWithFunctionCalls activations
               \* (a single activation for sendMessage); the last one is running
  srv,         \* the /message-stream handler of the exchange in progress
  events,      \* the SSE events that handler has written so far
  rd,          \* how many of them the client has read
  nreq,        \* requests issued to the server (or to the model) in this turn
  nchunks,     \* text chunks the model has produced in this turn
  nfail,       \* transport failures (failed request, broken read) in this turn
  nfault,      \* failed embedding requests and store writes in this turn
  inputs,      \* what the model has been sent, one entry per model request
  modelLog,    \* what the model answered, one entry per model request
  toolLog,     \* the calls executed, in order: the call and its id, its
               \* result, whether the catch around the tool ran, whether it
               \* asked for an embedding and called the Memory Store, how many
               \* records it created, whether it never returned, for a search
               \* the merged list, and what onToolResult was handed (None when
               \* it was not called: sendMessage has no such callback)
  requests,    \* the request bodies the client has sent in this turn
  chunksSeen,  \* the texts handed to onChunk, in order
  related,     \* App's relatedMemories: the last list handed to onContextUpdate
  lastSearch,  \* the memory search made last (None before the first)
  outcome,     \* the promise returned by sendMessage / sendMessageStream
  nerr,        \* events of type error the client has read in this turn
  assembled,   \* handleSendMessage's text, attachments and contextString, and whether its assembly threw
  modal,       \* the search modal's result list (None before a search)
  saves,       \* the attempts to create a memory, in order (what was observed of each)
  messages,    \* AssistantView's message list
  searchLog,   \* the keyword searches made of the store directly, in order
  vectorLog,   \* the vector searches made of the store directly, in order
  cosineLog,   \* the similarities computed for pairs of vectors, in order
  turn,        \* the number of the assistant view's turn
  limits,      \* what the turn explored may meet: failures, requests, and answers with malformed calls
  chatSessions,\* the server's Map of cached sessions: entries [key, chat]
  chatHistory, \* the Chat objects created so far: chatHistory[c] is the number of messages Chat c has answered
  userClients, \* the server's Map of Gemini clients: the keys that have one
  handlers,    \* the chat route handlers in progress on the server
  served,      \* the messages answered by the chat routes, in order
  resets,      \* the sessionIds reset since a request with them last arrived, each with the Chats created before its reset
  epoch,       \* the resets and clears made so far
  ttlCache,    \* the client's SimpleCache: a function from the cached keys to [data, timestamp, expiresIn]
  clockMs,     \* Date.now() of the client, in milliseconds since the cache was made
  tables,      \* the rows of the user's memories and conversations in Supabase
  pendingOps,  \* the store operations awaiting the answer of Supabase
  readLog,     \* what the store's reads have returned, in order
  resolvedVer, \* per table, the latest write among those whose call has resolved
  nops,        \* the store operations called so far
  authUser,    \* the user signed in in the browser (None when signed out)
  cachedUserId,\* supabase-db's cached user id (None for null)
  userIdCacheTime, \* Date.now() when cachedUserId was last set
  dateNow,     \* Date.now() of the browser, in milliseconds
  userCache,   \* the SimpleCache in front of Supabase, with the user's id in its keys
  userTables,  \* the rows of all users' memories and conversations in Supabase
  userLog,     \* the store operations made, in order: who was signed in, the user id used, what was returned
  configured,  \* whether the server has a Supabase client (supabase is not null)
  userApiKeys, \* the server's Map of keys kept in memory: a function from user ids to keys
  keyTable,    \* the user_api_keys table of Supabase: a function from user ids to keys
  keyClients,  \* the server's Map of Gemini clients, each with the key it was built from
  keySessions, \* the server's Map of chat sessions, each with the key of the client that created it
  keyLog,      \* the requests served, in order: the key used and the user's key at that time
  isLoading,   \* AssistantView's isLoading state, which InputArea receives as disabled
  inputText,   \* InputArea's input state: the text typed and not yet sent
  showApiKeyPrompt, \* AssistantView's showApiKeyPrompt state
  activations, \* the calls of handleSendMessage made, in order, each with the place it has reached
  chunking     \* the call of chunkText: its arguments, its locals start and chunks, the values start has had

vars == <<store, clock, kind, frames, srv, events, rd, nreq, nchunks, nfail, nfault, inputs,
          modelLog, toolLog, requests, chunksSeen, related, lastSearch, outcome, nerr, assembled, modal,
          saves, messages, limits, searchLog, vectorLog, cosineLog, turn, chatSessions, chatHistory, userClients, handlers, served, resets, epoch,
          ttlCache, clockMs, tables, pendingOps, readLog, resolvedVer, nops,
          authUser, cachedUserId, userIdCacheTime, dateNow, userCache, userTables, userLog,
          configured, userApiKeys, keyTable, keyClients, keySessions, keyLog,
          isLoading, inputText, showApiKeyPrompt, activations, chunking>>

\* the state of the server's session cache, which a turn of the assistant leaves alone
sessionVars == <<chatSessions, chatHistory, userClients, handlers, served, resets, epoch>>

\* the state of the Supabase store and the cache in front of it
cacheVars == <<ttlCache, clockMs, tables, pendingOps, readLog, resolvedVer, nops>>

\* the state of the assistant and its memory store, which the session cache leaves alone
turnVars == <<store, clock, kind, frames, srv, events, rd, nreq, nchunks, nfail, nfault, inputs,
              modelLog, toolLog, requests, chunksSeen, related, lastSearch, outcome, nerr, assembled,
              modal, saves, messages, limits>>

\* the logs of the store functions called directly
searchVars == <<searchLog, vectorLog, cosineLog>>

\* the state that no turn of the assistant, session of the server or cached
\* read touches
\* the state of the browser's store module across a change of user
userVars == <<authUser, cachedUserId, userIdCacheTime, dateNow, userCache, userTables, userLog>>

\* the state of the server's key store and of the caches made from the keys
keyVars == <<configured, userApiKeys, keyTable, keyClients, keySessions, keyLog>>

\* the state of the assistant view and its input area between the turns and during them
viewVars == <<isLoading, inputText, showApiKeyPrompt, activations>>

sideVars == <<userVars, keyVars, viewVars, chunking>>

restVars == <<searchVars, turn, sideVars>>

mainVars == <<turnVars, restVars>>

\* the failures of the turn so far; a turn meets at most limits.failures of them
Failures == nfail + nerr

\* the tool-call batches a model response of this turn may carry
TurnBatches ==
  LET \* calls whose args lack a field the tool's declaration requires: content,
      \* category, query
      MalformedBatch ==
        <<[name |-> "save_memory", args |-> [category |-> Some(cFact), tags |-> None]],
          [name |-> "save_memory", args |-> [content |-> cNote, tags |-> None]],
          [name |-> "search_memory", args |-> [tags |-> None]]>>
      \* the tool-call batches a model response may carry (ids are set per response)
      Batches ==
        LET SaveArgs == [content |-> cNote, category |-> Some(cFact), tags |-> None]
        IN {<<[name |-> "save_memory", args |-> SaveArgs],
              [name |-> "search_memory", args |-> [query |-> cAcme]],
              [name |-> "get_weather", args |-> [query |-> cDog]]>>}
  IN           IF limits.malformed THEN Batches \cup {MalformedBatch} ELSE Batches

Running == [status |-> "running", text |-> <<>>]
SrvIdle == [pc |-> "idle", collected |-> <<>>]

\* a new activation of streamWithFunctionCalls(message, attachments, context, frs)
\* (for sendMessage: the state of its single call)
Frame(hasMessage, att, context, frs) ==
  [message |-> hasMessage, att |-> att, context |-> context, frs |-> frs,
   fullText |-> <<>>, pending |-> <<>>, where |-> "req", post |-> FALSE,
   ti |-> 1, resp |-> <<>>]

\* the model answers of this turn that carried function calls
ToolRounds == Cardinality({i \in 1..Len(modelLog) : Len(modelLog[i].calls) > 0})

\* the embedding request or the store write of this environment fails
Faulty(env) == ~IsSome(env.embed) \/ ~env.addOk

Top == frames[Len(frames)]
Front(s) == SubSeq(s, 1, Len(s) - 1)
SetTop(f) == Front(frames) \o <<f>>

cErrorProcessing == <<103>>     \* "Error processing request."

\* the status onToolCall shows for a call
statusOf(call) ==
  LET \* The fixed texts of AssistantView. The characters of a model text are
      \* numbers; each fixed text is written as one character of its own.
      cProcessing == <<100>>          \* "Processing..."
      cConsolidating == <<101>>       \* "Consolidating new memory..."
      cScanning == <<102>>            \* "Scanning neural bank..."
  IN
  CASE call.name = "save_memory" -> cConsolidating
    [] call.name = "search_memory" -> cScanning
    [] OTHER -> cProcessing

\* setMessages(prev => prev.map(m => m.id === thinkingId ? {...m, text} : m))
showStatus(msgs, text) ==
  [i \in 1..Len(msgs) |-> IF msgs[i].thinkingId THEN [msgs[i] EXCEPT !.text = text]
                           ELSE msgs[i]] \o <<>>

\* the same with {...m, text, isThinking: false}, as onChunk makes it
showText(msgs, text) ==
  [i \in 1..Len(msgs) |->
     IF msgs[i].thinkingId THEN [msgs[i] EXCEPT !.text = text, !.isThinking = FALSE]
     ELSE msgs[i]] \o <<>>

\* the final update also gives the message a new id
showFinal(msgs, text) ==
  [i \in 1..Len(msgs) |->
     IF msgs[i].thinkingId
       THEN [msgs[i] EXCEPT !.text = text, !.isThinking = FALSE, !.thinkingId = FALSE]
       ELSE msgs[i]] \o <<>>

\* the catch of handleSendMessage: the messages still thinking are dropped
\* and the error message is appended
showError(msgs) ==
  Append(SelectSeq(msgs, LAMBDA m : ~m.isThinking),
         [role |-> "model", text |-> cErrorProcessing, isThinking |-> FALSE,
          thinkingId |-> FALSE])

\* handleSendMessage after its await of sendMessageStream, which goes on as
\* soon as the promise is settled: the final update of the message, or the
\* catch that shows the error message (the speech of the answer is off)
shown(msgs, fs, o) ==
  IF fs # <<>> \/ o.status = "running" THEN msgs
  ELSE IF o.status = "rejected" THEN showError(msgs)
  ELSE showFinal(msgs, o.text)

\* the concatenation of the texts handed to onChunk
RECURSIVE Concat(_)
Concat(texts) ==
  Bind(texts, LAMBDA t : IF t = <<>> THEN <<>> ELSE t[1] \o Concat(Tail(t)))

InitState ==
  LET NoAssembly == [text |-> <<>>, att |-> <<>>, personal |-> FALSE, context |-> <<>>, failed |-> FALSE]
  IN
  /\ store \in Corpora
  /\ clock = 5
  /\ kind = "idle"
  /\ frames = <<>>
  /\ srv = SrvIdle
  /\ events = <<>>
  /\ rd = 0
  /\ nreq = 0
  /\ nchunks = 0
  /\ nfail = 0
  /\ nfault = 0
  /\ inputs = <<>>
  /\ modelLog = <<>>
  /\ toolLog = <<>>
  /\ requests = <<>>
  /\ chunksSeen = <<>>
  /\ related = <<>>
  /\ lastSearch = None
  /\ outcome = Running
  /\ nerr = 0
  /\ assembled = NoAssembly
  /\ modal = None
  /\ saves = <<>>
  /\ messages = <<>>
  /\ searchLog = <<>>
  /\ vectorLog = <<>>
  /\ cosineLog = <<>>
  /\ turn = 1
  /\ authUser = None
  /\ cachedUserId = None
  /\ userIdCacheTime = 0
  /\ dateNow = 0
  /\ userCache = <<>>
  /\ userTables = [memories |-> <<[user_id |-> "alice", id |-> 1], [user_id |-> "bob", id |-> 2]>>,
                   conversations |-> <<[user_id |-> "alice", id |-> "c1"],
                                       [user_id |-> "bob", id |-> "c2"]>>]
  /\ userLog = <<>>
  /\ userApiKeys = <<>>
  /\ keyTable = <<>>
  /\ keyClients = <<>>
  /\ keySessions = {}
  /\ keyLog = <<>>
  /\ isLoading = FALSE
  /\ inputText = <<>>
  /\ showApiKeyPrompt = FALSE
  /\ activations = <<>>
  /\ chunking = [pc |-> "idle", text |-> <<>>, chunkSize |-> 0, overlap |-> 0, start |-> 0,
                 chunks |-> <<>>, starts |-> <<>>]
  /\ chatSessions = {}
  /\ chatHistory = <<>>
  /\ userClients = {}
  /\ handlers = <<>>
  /\ served = <<>>
  /\ resets = {}
  /\ epoch = 0
  /\ ttlCache = <<>>
  /\ clockMs = 0
  /\ tables = [memories |-> [rows |-> {1}, ver |-> 0],
               conversations |-> [rows |-> {[id |-> "c1", rev |-> 0]}, ver |-> 0]]
  /\ pendingOps = <<>>
  /\ readLog = <<>>
  /\ resolvedVer = [memories |-> 0, conversations |-> 0]
  /\ nops = 0

\* --------------------------------------------------- leaving an activation
\* The running activation has been popped and either returns text or throws;
\* fs is the rest of the stack.  An awaiting caller adds its own fullText in
\* front of a returned text.  A rejection reaching a caller that awaits inside
\* the try of its event loop is caught by "catch (e) { console.error(...) }":
\* its stream has ended, so it falls out of the loop into the code after it,
\* where pendingFunctionCalls is still non-empty.  A caller awaiting in that
\* later code is outside any try and rethrows.
RECURSIVE Unwind(_, _, _)
UnwindMutDropText(fs, throwing, text) ==
  Bind(fs, LAMBDA stack :
    IF stack = <<>>
    THEN [frames |-> <<>>,
          outcome |-> IF throwing THEN [status |-> "rejected", text |-> <<>>]
                      ELSE [status |-> "resolved", text |-> text]]
    ELSE LET p == stack[Len(stack)]
         IN IF ~throwing THEN Unwind(Front(stack), FALSE, text)
            ELSE IF p.post THEN Unwind(Front(stack), TRUE, <<>>)
            ELSE [frames |-> Front(stack) \o <<[p EXCEPT !.where = "tools", !.post = TRUE,
                                                       !.ti = 1, !.resp = <<>>]>>,
                  outcome |-> Running])

Unwind(fs, throwing, text) ==
  Bind(fs, LAMBDA stack :
    IF stack = <<>>
    THEN [frames |-> <<>>,
          outcome |-> IF throwing THEN [status |-> "rejected", text |-> <<>>]
                      ELSE [status |-> "resolved", text |-> text]]
    ELSE LET p == stack[Len(stack)]
         IN IF ~throwing THEN Unwind(Front(stack), FALSE, p.fullText \o text)
            ELSE IF p.post THEN Unwind(Front(stack), TRUE, <<>>)
            ELSE [frames |-> Front(stack) \o <<[p EXCEPT !.where = "tools", !.post = TRUE,
                                                       !.ti = 1, !.resp = <<>>]>>,
                  outcome |-> Running])

Leave(throwing, text) ==
  \E u \in {Unwind(Front(frames), throwing, text)} :
    /\ frames' = u.frames
    /\ outcome' = u.outcome

\* The handler's writes and the client's reads of one exchange do not depend
\* on each other's pace, so the handler is let to write only when the client
\* has read what was written.
\* ------------------------------------------------ request validation (server)
\* validateMessageStream: function responses, when present, replace the message
validateMessageStream(req) ==
  IF Len(req.frs) > 0
  THEN Len(req.frs) <= MAX_FUNCTION_RESPONSES
  ELSE req.message

validateFunctionResponse(req) ==
  /\ Len(req.frs) > 0
  /\ Len(req.frs) <= MAX_FUNCTION_RESPONSES
  /\ \A i \in 1..Len(req.frs) : {"id", "response"} \subseteq DOMAIN req.frs[i]

\* the body of the request an activation sends: the user's message (present
\* or not), its attachments and context, and the function responses
requestBody(f) ==
  [message |-> f.message, att |-> IF f.message THEN f.att ELSE <<>>,
   context |-> f.context, frs |-> f.frs]

\* the model input the server builds from a request
modelInput(req) ==
  IF Len(req.frs) > 0
  THEN [type |-> "functionResponses", frs |-> req.frs, att |-> <<>>, context |-> <<>>]
  ELSE [type |-> "message", frs |-> <<>>, att |-> req.att, context |-> req.context]

\* ------------------------------------------------------ sendMessageStream
\* sendMessageStream(text, attachments, contextMemories, ...): the first
\* activation of streamWithFunctionCalls
StartStream(att, context) ==
  /\ kind' = "stream"
  /\ frames' = <<Frame(TRUE, att, context, <<>>)>>

\* fetch(`/api/chat/message-stream`): a rejected fetch or a non-ok status
\* throws; otherwise the route handler starts and the client begins to read
StreamFetch ==
  /\ kind = "stream" /\ frames # <<>> /\ Top.where = "req"
  /\ nreq' = nreq + 1
  /\ \E httpOk \in BOOLEAN :
       /\ ~httpOk => (Failures < limits.failures /\ nreq + 1 < limits.requests)
       /\ IF httpOk /\ validateMessageStream(Top)
          THEN /\ frames' = SetTop([Top EXCEPT !.where = "read"])
               /\ srv' = [pc |-> "open", collected |-> <<>>]
               /\ events' = <<>>
               /\ rd' = 0
               /\ UNCHANGED <<outcome, nfail>>
          ELSE /\ Leave(TRUE, <<>>)
               /\ nfail' = nfail + 1
               /\ UNCHANGED <<srv, events, rd>>
  /\ requests' = Append(requests, requestBody(Top))
  /\ messages' = shown(messages, frames', outcome')
  /\ UNCHANGED <<limits, restVars, sessionVars, cacheVars, saves, store, clock, kind, nchunks, nfault, inputs, modelLog, toolLog, chunksSeen,
                 related, lastSearch, nerr, assembled, modal>>

\* res.write(connected)
ServerConnected ==
  /\ srv.pc = "open"
  /\ rd = Len(events)
  /\ events' = Append(events, [type |-> "connected"])
  /\ srv' = [srv EXCEPT !.pc = "session"]
  /\ UNCHANGED <<limits, restVars, sessionVars, cacheVars, messages, saves, store, clock, kind, frames, rd, nreq, nchunks, nfail, nfault, inputs, modelLog,
                 toolLog, requests, chunksSeen, related, lastSearch, outcome, nerr, assembled, modal>>

\* getChatSession, currentMessage, chat.sendMessageStream: either the model
\* starts to stream or one of them throws into the handler's catch
ServerSendToModel ==
  /\ srv.pc = "session"
  /\ rd = Len(events)
  /\ \E ok \in BOOLEAN :
       IF ok
       THEN /\ srv' = [srv EXCEPT !.pc = "stream"]
            /\ inputs' = Append(inputs, modelInput(Top))
            /\ modelLog' = Append(modelLog, [text |-> <<>>, calls |-> <<>>])
            /\ UNCHANGED events
       ELSE /\ Failures < limits.failures
            /\ srv' = [srv EXCEPT !.pc = "ended"]
            /\ events' = Append(events, [type |-> "error"])
            /\ UNCHANGED <<inputs, modelLog>>
  /\ UNCHANGED <<limits, restVars, sessionVars, cacheVars, messages, saves, store, clock, kind, frames, rd, nreq, nchunks, nfail, nfault, toolLog, requests,
                 chunksSeen, related, lastSearch, outcome, nerr, assembled, modal>>

\* one iteration of "for await (const chunk of stream)": a chunk with text is
\* forwarded as a chunk event, its function calls are collected (a chunk that
\* holds both is handled as one of each)
ServerChunk ==
  /\ srv.pc = "stream"
  /\ rd = Len(events)
  /\ srv.collected = <<>>
  /\ \E hasText \in BOOLEAN, b \in TurnBatches \cup {<<>>} :
       /\ hasText # (b # <<>>)
       /\ hasText => nchunks < MaxChunks
       /\ b # <<>> => (nreq < limits.requests /\ ToolRounds < MaxToolRounds)
       /\ LET text == IF hasText THEN <<nchunks + 1>> ELSE <<>>
              calls == WithIds(b, nreq)
              n == Len(modelLog)
          IN /\ events' = IF hasText
                          THEN Append(events, [type |-> "chunk", text |-> text])
                          ELSE events
             /\ nchunks' = IF hasText THEN nchunks + 1 ELSE nchunks
             /\ srv' = [srv EXCEPT !.collected = @ \o calls]
             /\ modelLog' = [modelLog EXCEPT ![n] = [text |-> @.text \o text,
                                                     calls |-> @.calls \o calls]]
  /\ UNCHANGED <<limits, restVars, sessionVars, cacheVars, messages, saves, store, clock, kind, frames, rd, nreq, nfail, nfault, inputs, toolLog, requests,
                 chunksSeen, related, lastSearch, outcome, nerr, assembled, modal>>

\* the stream iterator throws: catch (error) writes an error event and ends
ServerStreamThrows ==
  /\ srv.pc = "stream"
  /\ rd = Len(events)
  /\ Failures < limits.failures
  /\ events' = Append(events, [type |-> "error"])
  /\ srv' = [srv EXCEPT !.pc = "ended"]
  /\ UNCHANGED <<limits, restVars, sessionVars, cacheVars, messages, saves, store, clock, kind, frames, rd, nreq, nchunks, nfail, nfault, inputs, modelLog,
                 toolLog, requests, chunksSeen, related, lastSearch, outcome, nerr, assembled, modal>>

terminalEventsMutNoReturn(collected, fullText) ==
  IF Len(collected) > 0
  THEN <<[type |-> "functionCalls", calls |-> collected],
         [type |-> "done", text |-> fullText, needsFunctionResponse |-> TRUE],
         [type |-> "done", text |-> fullText]>>
  ELSE <<[type |-> "done", text |-> fullText]>>

\* what the handler writes once the model's stream is exhausted
terminalEvents(collected, fullText) ==
  IF Len(collected) > 0
  THEN <<[type |-> "functionCalls", calls |-> collected],
         [type |-> "done", text |-> fullText, needsFunctionResponse |-> TRUE]>>
  ELSE <<[type |-> "done", text |-> fullText]>>

ServerStreamEnd ==
  /\ srv.pc = "stream"
  /\ rd = Len(events)
  /\ events' = events \o terminalEvents(srv.collected, modelLog[Len(modelLog)].text)
  /\ srv' = [srv EXCEPT !.pc = "ended"]
  /\ UNCHANGED <<limits, restVars, sessionVars, cacheVars, messages, saves, store, clock, kind, frames, rd, nreq, nchunks, nfail, nfault, inputs, modelLog,
                 toolLog, requests, chunksSeen, related, lastSearch, outcome, nerr, assembled, modal>>

\* data.needsFunctionResponse (absent on the final done)
needsFunctionResponse(e) ==
  "needsFunctionResponse" \in DOMAIN e /\ e.needsFunctionResponse

\* The client handles the next "data: " line of the exchange it is reading.
\* The throw of the error branch lands in the catch around the line's
\* handling, which only logs it.
ClientRead ==
  /\ kind = "stream" /\ frames # <<>> /\ Top.where = "read"
  /\ rd < Len(events)
  /\ rd' = rd + 1
  /\ LET e == events[rd + 1]
     IN /\ nerr' = (IF e.type = "error" THEN nerr + 1 ELSE nerr)
        /\ chunksSeen' = IF e.type = "chunk" THEN Append(chunksSeen, e.text) ELSE chunksSeen
        /\ CASE e.type = "chunk" ->
                  /\ frames' = SetTop([Top EXCEPT !.fullText = @ \o e.text])
                  /\ UNCHANGED outcome
             [] e.type = "functionCalls" ->
                  /\ frames' = SetTop([Top EXCEPT !.pending = e.calls])
                  /\ UNCHANGED outcome
             [] e.type = "done" ->
                  IF needsFunctionResponse(e) /\ Len(Top.pending) > 0
                  THEN /\ frames' = SetTop([Top EXCEPT !.where = "tools", !.post = FALSE,
                                                      !.ti = 1, !.resp = <<>>])
                       /\ UNCHANGED outcome
                  ELSE Leave(FALSE, Top.fullText)
             [] OTHER -> UNCHANGED <<frames, outcome>>
        /\ messages' = shown(IF e.type = "chunk" THEN showText(messages, Concat(chunksSeen'))
                              ELSE messages, frames', outcome')
  /\ UNCHANGED <<limits, restVars, sessionVars, cacheVars, saves, store, clock, kind, srv, events, nreq, nchunks, nfail, nfault, inputs, modelLog,
                 toolLog, requests, related, lastSearch, assembled, modal>>

\* reader.read() reports the end of the body without a done having returned:
\* the code after the loop runs
ClientEndOfStream ==
  /\ kind = "stream" /\ frames # <<>> /\ Top.where = "read"
  /\ rd = Len(events) /\ srv.pc = "ended"
  /\ IF Len(Top.pending) > 0
     THEN /\ frames' = SetTop([Top EXCEPT !.where = "tools", !.post = TRUE,
                                         !.ti = 1, !.resp = <<>>])
          /\ UNCHANGED outcome
     ELSE Leave(FALSE, Top.fullText)
  /\ messages' = shown(messages, frames', outcome')
  /\ UNCHANGED <<limits, restVars, sessionVars, cacheVars, saves, store, clock, kind, srv, events, rd, nreq, nchunks, nfail, nfault, inputs, modelLog,
                 toolLog, requests, chunksSeen, related, lastSearch, nerr, assembled, modal>>

\* reader.read() rejects (the connection broke): the activation throws
ClientReadFails ==
  /\ kind = "stream" /\ frames # <<>> /\ Top.where = "read"
  /\ rd = Len(events)
  /\ Failures < limits.failures /\ nreq < limits.requests
  /\ nfail' = nfail + 1
  /\ srv' = SrvIdle
  /\ Leave(TRUE, <<>>)
  /\ messages' = shown(messages, frames', outcome')
  /\ UNCHANGED <<limits, restVars, sessionVars, cacheVars, saves, store, clock, kind, events, rd, nreq, nchunks, nfault, inputs, modelLog,
                 toolLog, requests, chunksSeen, related, lastSearch, nerr, assembled, modal>>

\* one iteration of the loop over the pending calls (in the done branch, in
\* the code after the read loop, or in sendMessage's while loop)
ExecTool ==
  /\ frames # <<>> /\ Top.where = "tools"
  /\ Top.ti <= Len(Top.pending)
  /\ \E call \in {Top.pending[Top.ti]} :
     \E env \in EnvsFor(call) :
     \E r \in {executeTool(call, Top.att, store, clock, env, kind = "local")} :
          /\ Faulty(env) => nfault < MaxFaults
          /\ nfault' = IF Faulty(env) THEN nfault + 1 ELSE nfault
          /\ store' = r.store
          /\ clock' = IF r.store # store THEN clock + 1 ELSE clock
          /\ toolLog' = Append(toolLog, [id |-> call.id, caught |-> r.caught,
                                          call |-> call, result |-> r.result, hung |-> r.hung,
                                          embedRequested |-> r.embedRequested,
                                          storeCalled |-> r.storeCalled,
                                          created |-> Len(r.store) - Len(store),
                                          combined |-> r.combined,
                                          ui |-> IF kind = "stream" THEN r.ui ELSE None])
          /\ related' = IF kind = "stream" /\ IsSome(r.ui)
                        THEN Val(r.ui).results ELSE related
          /\ lastSearch' = IF IsSome(r.combined)
                           THEN SearchObs(IF kind = "local" THEN "local" ELSE "tool",
                                          <<call.args.query>>, env, store, TRUE, Val(r.combined))
                           ELSE lastSearch
          /\ frames' = IF r.hung THEN SetTop([Top EXCEPT !.where = "hung"])
                        ELSE SetTop([Top EXCEPT !.ti = @ + 1,
                                       !.resp = Append(@, functionResponse(call, r.result))])
          /\ saves' = IF call.name = "save_memory"
                      THEN Append(saves, SaveObs(IF kind = "local" THEN "local" ELSE "tool",
                                                 env, store, r.store, Some(r.result)))
                      ELSE saves
          /\ messages' = IF kind = "stream" THEN showStatus(messages, statusOf(call))
                          ELSE messages
  /\ UNCHANGED <<limits, restVars, sessionVars, cacheVars, kind, srv, events, rd, nreq, nchunks, nfail, inputs, modelLog, requests,
                 chunksSeen, outcome, nerr, assembled, modal>>

\* streamWithFunctionCalls('', [], '', functionResponses): the caller awaits a
\* new activation that carries the tool results
StreamContinue ==
  /\ kind = "stream" /\ frames # <<>> /\ Top.where = "tools"
  /\ Top.ti > Len(Top.pending)
  /\ frames' = SetTop([Top EXCEPT !.where = "await"]) \o <<Frame(FALSE, <<>>, <<>>, Top.resp)>>
  /\ UNCHANGED <<limits, restVars, sessionVars, cacheVars, messages, saves, store, clock, kind, srv, events, rd, nreq, nchunks, nfail, nfault, inputs, modelLog,
                 toolLog, requests, chunksSeen, related, lastSearch, outcome, nerr, assembled, modal>>

\* ------------------------------------------------------------ sendMessage
\* sendMessage(text, attachments, contextMemories, onToolCall) of the proxy
\* client (gemini.ts) and of the local client (part_001)
StartSend(local, att, context) ==
  /\ kind' = IF local THEN "local" ELSE "send"
  /\ frames' = <<Frame(TRUE, att, context, <<>>)>>

\* One request and its answer: POST /message or /function-response and the
\* route's chat.sendMessage (proxy), or chat.sendMessage itself (local).  A
\* failure anywhere rejects sendMessage.  Otherwise data = {text, functionCalls}:
\* the while loop runs on a non-empty functionCalls, else data.text is returned.
SendFetch ==
  LET \* validateMessage (POST /message)
      validateMessage(req) == req.message
  IN
  /\ kind \in {"send", "local"} /\ frames # <<>> /\ Top.where = "req"
  /\ nreq' = nreq + 1
  /\ \E ok \in BOOLEAN, hasText \in BOOLEAN, b \in TurnBatches \cup {<<>>} :
       /\ ~ok => (Failures < limits.failures /\ ~hasText /\ b = <<>>)
       /\ hasText => nchunks < MaxChunks
       /\ b # <<>> => (nreq + 1 < limits.requests /\ ToolRounds < MaxToolRounds)
       /\ LET valid == \/ kind = "local"
                       \/ IF Len(Top.frs) > 0 THEN validateFunctionResponse(Top)
                          ELSE validateMessage(Top)
              text == IF hasText THEN <<nchunks + 1>> ELSE <<>>
              calls == WithIds(b, nreq + 1)
          IN IF ok /\ valid
             THEN /\ inputs' = Append(inputs, modelInput(Top))
                  /\ modelLog' = Append(modelLog, [text |-> text, calls |-> calls])
                  /\ nchunks' = IF hasText THEN nchunks + 1 ELSE nchunks
                  /\ UNCHANGED nfail
                  /\ IF Len(calls) > 0
                     THEN /\ frames' = SetTop([Top EXCEPT !.where = "tools", !.pending = calls,
                                                         !.ti = 1, !.resp = <<>>])
                          /\ UNCHANGED outcome
                     ELSE Leave(FALSE, text)
             ELSE /\ ~hasText /\ b = <<>>
                  /\ Leave(TRUE, <<>>)
                  /\ nfail' = nfail + 1
                  /\ UNCHANGED <<inputs, modelLog, nchunks>>
  /\ requests' = Append(requests, requestBody(Top))
  /\ UNCHANGED <<limits, restVars, sessionVars, cacheVars, messages, saves, store, clock, kind, srv, events, rd, nfault, toolLog, chunksSeen, related,
                 lastSearch, nerr, assembled, modal>>

\* the end of one pass of the while loop: the responses go back to the model
SendContinue ==
  /\ kind \in {"send", "local"} /\ frames # <<>> /\ Top.where = "tools"
  /\ Top.ti > Len(Top.pending)
  /\ frames' = SetTop([Top EXCEPT !.where = "req", !.message = FALSE, !.frs = Top.resp])
  /\ UNCHANGED <<limits, restVars, sessionVars, cacheVars, messages, saves, store, clock, kind, srv, events, rd, nreq, nchunks, nfail, nfault, inputs, modelLog,
                 toolLog, requests, chunksSeen, related, lastSearch, outcome, nerr, assembled, modal>>

\* ---------------------------------------------------------------- the turns
\* handleSendMessage up to its call of sendMessageStream: without an API key
\* it only shows the prompt; for a personal question it assembles the context
\* and publishes the retrieved records
HandleSendMessage ==
  LET \* the searches of the assembly that may throw (an IndexedDB request that fails)
      SearchFailures == {"none", "vector", "keyword"}
  IN
  /\ kind = "idle"
  /\ \E input \in UserInputs, userHasApiKey \in BOOLEAN :
     \E text \in {input.text}, att \in {input.att} :
       IF ~userHasApiKey
       THEN /\ kind' = "prompt"
            /\ UNCHANGED <<assembled, related, lastSearch, nfault, messages>>
       ELSE /\ kind' = "assembled"
            /\ messages' = <<[role |-> "user", text |-> text, isThinking |-> FALSE,
                               thinkingId |-> FALSE],
                              [role |-> "model", text |-> <<>>, isThinking |-> TRUE,
                               thinkingId |-> TRUE]>>
            /\ IF isPersonalQuestion(text)
               THEN \E env \in {e \in ToolEnvs : e.addOk}, searchFails \in SearchFailures :
                    \E a \in {assembleContext(store, text, env, searchFails)} :
                         /\ ~IsSome(env.embed) => searchFails = "none"
                         /\ nfault' = IF Faulty(env) \/ searchFails # "none" THEN nfault + 1
                                       ELSE nfault
                         /\ assembled' = [text |-> text, att |-> att, personal |-> TRUE,
                                          context |-> a.context,
                                          failed |-> ~IsSome(env.embed) \/ searchFails # "none"]
                         /\ related' = IF IsSome(a.published) THEN Val(a.published)
                                       ELSE related
                         /\ lastSearch' = SearchObs("assembler", keywordQueries(text), env,
                                                    store, a.keywordRan, a.combined)
               ELSE /\ assembled' = [text |-> text, att |-> att, personal |-> FALSE,
                                     context |-> <<>>, failed |-> FALSE]
                    /\ UNCHANGED <<related, lastSearch, nfault>>
  /\ UNCHANGED <<limits, restVars, sessionVars, cacheVars, saves, store, clock, frames, srv, events, rd, nreq, nchunks, nfail, inputs,
                 modelLog, toolLog, requests, chunksSeen, outcome, nerr, modal>>

\* service.sendMessageStream(text, attachments, contextString, ...)
CallSendMessageStream ==
  /\ kind = "assembled"
  /\ StartStream(assembled.att, assembled.context)
  /\ UNCHANGED <<limits, restVars, sessionVars, cacheVars, messages, saves, store, clock, srv, events, rd, nreq, nchunks, nfail, nfault, inputs, modelLog,
                 toolLog, requests, chunksSeen, related, lastSearch, outcome, nerr, assembled,
                 modal>>

\* a caller of sendMessage, of the proxy client or of the local one
CallSendMessage ==
  /\ kind = "idle"
  /\ \E att \in Attachments, local \in BOOLEAN : StartSend(local, att, <<>>)
  /\ UNCHANGED <<limits, restVars, sessionVars, cacheVars, messages, saves, store, clock, srv, events, rd, nreq, nchunks, nfail, nfault, inputs, modelLog,
                 toolLog, requests, chunksSeen, related, lastSearch, outcome, nerr, assembled,
                 modal>>

\* the search modal's debounced effect for a typed query
SearchModal ==
  LET \* the queries the model may put in a search_memory call or the user may type
      Queries == {cAcme, cDog}
  IN
  /\ kind = "idle"
  /\ \E query \in Queries, env \in {e \in ToolEnvs : e.addOk} :
     \E results \in {modalSearch(store, query, env)} :
       /\ kind' = "modal"
       /\ modal' = Some(results)
       /\ lastSearch' = SearchObs("modal", <<query>>, env, store, TRUE, results)
  /\ UNCHANGED <<limits, restVars, sessionVars, cacheVars, messages, saves, store, clock, frames, srv, events, rd, nreq, nchunks, nfail, nfault, inputs,
                 modelLog, toolLog, requests, chunksSeen, related, outcome, nerr, assembled>>

\* the diary's "add log" for a typed entry
HandleAddLog ==
  /\ kind = "idle"
  /\ \E userHasApiKey \in BOOLEAN, env \in {e \in ToolEnvs : ~e.addOk => IsSome(e.embed)} :
     \E after \in {addLog(store, clock, cNote, userHasApiKey, env)} :
       /\ ~userHasApiKey => IsSome(env.embed)
       /\ kind' = "diary"
       /\ store' = after
       /\ clock' = IF after # store THEN clock + 1 ELSE clock
       /\ saves' = Append(saves, [SaveObs("diary", env, store, after, None)
                                  EXCEPT !.embedFailed = userHasApiKey /\ ~IsSome(env.embed)])
  /\ UNCHANGED <<limits, restVars, sessionVars, cacheVars, messages, frames, srv, events, rd, nreq, nchunks, nfail, nfault, inputs, modelLog,
                 toolLog, requests, chunksSeen, related, lastSearch, outcome, nerr, assembled,
                 modal>>

\* the Files view's upload of one file
HandleFileUpload ==
  LET \* what the embedding request of one chunk of an uploaded file does: it
      \* answers, it fails, or it fails with a message that names the API key
      ChunkOutcomes == {"ok", "error", "apikey"}
  IN
  /\ kind = "idle"
  /\ \E userHasApiKey \in BOOLEAN :
       IF ~userHasApiKey
       THEN /\ kind' = "prompt"
            /\ UNCHANGED <<store, clock, saves>>
       ELSE \E file \in {a[1] : a \in Attachments \ {<<>>}},
               fileEnv \in {e \in ToolEnvs : e.addOk},
               stillHasApiKey \in BOOLEAN,
               n \in 1..MaxUploadChunks :
            \E outcomes \in [1..n -> ChunkOutcomes] :
            \E r \in {fileUpload(store, clock, file, fileEnv, stillHasApiKey, outcomes)} :
              /\ ~stillHasApiKey => n = 1 /\ outcomes[1] = "ok"
              /\ kind' = "upload"
              /\ store' = r.store
              /\ clock' = r.clock
              /\ saves' = r.saves
  /\ UNCHANGED <<limits, restVars, sessionVars, cacheVars, messages, frames, srv, events, rd, nreq, nchunks, nfail, nfault, inputs, modelLog,
                 toolLog, requests, chunksSeen, related, lastSearch, outcome, nerr, assembled,
                 modal>>

Next ==
  \/ HandleSendMessage
  \/ HandleAddLog
  \/ HandleFileUpload
  \/ CallSendMessageStream
  \/ CallSendMessage
  \/ SearchModal
  \/ StreamFetch
  \/ ServerConnected
  \/ ServerSendToModel
  \/ ServerChunk
  \/ ServerStreamThrows
  \/ ServerStreamEnd
  \/ ClientRead
  \/ ClientEndOfStream
  \/ ClientReadFails
  \/ ExecTool
  \/ StreamContinue
  \/ SendFetch
  \/ SendContinue

\* a turn that meets at most MaxFailures failures in MaxRequests requests, and
\* whose model answers with well-formed calls
Init ==
  /\ InitState
  /\ configured = TRUE
  /\ limits = [failures |-> MaxFailures, requests |-> MaxRequests, malformed |-> FALSE]

Spec == Init /\ [][Next]_vars

\* a turn whose model may answer with calls that lack an argument
ArgsInit ==
  /\ InitState
  /\ configured = TRUE
  /\ limits = [failures |-> MaxFailures, requests |-> MaxRequests, malformed |-> TRUE]

ArgsSpec == ArgsInit /\ [][Next]_vars

\* a turn that may meet one failure and one request more
RetryInit ==
  /\ InitState
  /\ configured = TRUE
  /\ limits = [failures |-> MaxFailures + 1, requests |-> MaxRequests + 1, malformed |-> FALSE]

RetrySpec == RetryInit /\ [][Next]_vars

TypeOK == outcome.status \in {"running", "resolved", "rejected"}

\* ------------------------------------------------------------ observations
Resolved == outcome.status = "resolved"

\* the client has read an event of type error in this turn
errSeen == nerr > 0

\* the turn met no transport failure and read no error event
Clean == nfail = 0 /\ ~errSeen

RoundHasCalls(i) == Len(modelLog[i].calls) > 0

CallIds(calls) == [i \in 1..Len(calls) |-> calls[i].id] \o <<>>

\* the ids of the executed calls, in execution order
ExecutedIds == [j \in 1..Len(toolLog) |-> toolLog[j].id] \o <<>>

\* the texts, and the call ids, of the model's answers in order
RECURSIVE AllText(_)
AllText(log) ==
  Bind(log, LAMBDA l : IF l = <<>> THEN <<>> ELSE l[1].text \o AllText(Tail(l)))

RECURSIVE AllCallIds(_)
AllCallIds(log) ==
  Bind(log, LAMBDA l : IF l = <<>> THEN <<>> ELSE CallIds(l[1].calls) \o AllCallIds(Tail(l)))

\* the model answered round 1 with tool calls and round 2 with none, and the
\* turn resolved without a transport failure or an error event
TwoRoundTurn ==
  /\ Resolved /\ Clean
  /\ Len(modelLog) = 2 /\ RoundHasCalls(1) /\ ~RoundHasCalls(2)

HoldsErrorResponse(frs, id) ==
  LET \* fr answers the call of this id with the error of the failed create
      IsErrorResponse(fr) ==
        fr.id = id /\ fr.response = [result |-> [error |-> AddMemoryError]]
  IN \E k \in 1..Len(frs) : IsErrorResponse(frs[k])

\* C2: when addMemory throws during a save_memory call the turn does not
\* throw (only a transport failure rejects it), the function response of that
\* call carries {error: message}, the calls after it in the batch are still
\* executed, and the batch with that response is sent back to the model (or
\* is still being worked on: a later call of the batch is running or has
\* never returned).
C2_ToolFailureIsolated ==
  LET \* the batch of the model's answers that holds the call of this id
      BatchOf(id) ==
        LET i == CHOOSE i \in 1..Len(modelLog) :
                   \E k \in 1..Len(modelLog[i].calls) : modelLog[i].calls[k].id = id
        IN modelLog[i].calls
  IN
  /\ outcome.status = "rejected" => nfail > 0
  /\ \A j \in 1..Len(toolLog) :
       toolLog[j].caught =>
         LET id == toolLog[j].id
             batch == BatchOf(id)
             i == id[2]
             executing == /\ frames # <<>> /\ Top.where \in {"tools", "hung"}
                          /\ Top.pending = batch /\ Top.ti > i
                          /\ HoldsErrorResponse(Top.resp, id)
         IN /\ i < Len(batch) =>
                 IF j < Len(toolLog) THEN toolLog[j + 1].id = batch[i + 1].id
                 ELSE executing /\ Top.ti = i + 1
            /\ \/ executing
               \/ \E f \in 1..Len(frames) : HoldsErrorResponse(frames[f].frs, id)
               \/ \E q \in 1..Len(requests) : HoldsErrorResponse(requests[q].frs, id)

C2_Witness ==
  /\ Resolved
  /\ \E j \in 1..(Len(toolLog) - 1) :
       /\ toolLog[j].caught
       /\ \E q \in 1..Len(inputs) :
            /\ HoldsErrorResponse(inputs[q].frs, toolLog[j].id)
            /\ Len(inputs[q].frs) = 3

\* C3 (as stated): a turn in which the model's first n answers carry tool calls
\* and answer n+1 carries none makes n+1 model requests, executes the n batches
\* and resolves with the accumulated text of all answers.
C3_ResolvesWithAccumulatedText ==
  (Resolved /\ Clean) =>
    /\ Len(requests) = Len(modelLog)
    /\ \A i \in 1..Len(modelLog) : RoundHasCalls(i) <=> i < Len(modelLog)
    /\ ExecutedIds = AllCallIds(modelLog)
    /\ outcome.text = AllText(modelLog)

\* C4 (as stated): once the client has read an event of type error,
\* sendMessageStream does not resolve: the turn fails.
C4_ErrorEventFailsTurn ==
  errSeen => ~Resolved

\* C5 (as stated): sendMessageStream resolves only on a done event without
\* needsFunctionResponse, and every exchange after the first carries function
\* responses and no user message.
C5_ResolvesOnlyOnFinalDone ==
  /\ \A q \in 2..Len(requests) :
       kind = "stream" => (~requests[q].message /\ Len(requests[q].frs) > 0)
  /\ (kind = "stream" /\ Resolved) =>
       /\ rd > 0
       /\ events[rd].type = "done"
       /\ ~needsFunctionResponse(events[rd])

\* C6: the events of an exchange are connected, then chunk events, then one
\* terminal part: done, or functionCalls immediately followed by done with
\* needsFunctionResponse, or error; functionCalls occurs at most once, done
\* carries the flag exactly when functionCalls was emitted, nothing follows
\* the terminal part, and an ended handler has written it.
C6_EventGrammar ==
  LET \* the events that end an exchange, or begin its end
      TerminalTypes == {"functionCalls", "done", "error"}
  IN
  LET n == Len(events)
      T == {i \in 1..n : events[i].type \in TerminalTypes}
  IN /\ n > 0 => events[1].type = "connected"
     /\ \A i \in 2..n : events[i].type # "connected"
     /\ srv.pc = "ended" => T # {}
     /\ srv.pc \in {"open", "session", "stream"} => T = {}
     /\ T # {} =>
          LET t == CHOOSE i \in T : \A j \in T : i <= j
          IN /\ \A i \in 2..(t - 1) : events[i].type = "chunk"
             /\ CASE events[t].type = "functionCalls" ->
                       /\ n = t + 1
                       /\ events[n].type = "done"
                       /\ needsFunctionResponse(events[n])
                  [] events[t].type = "done" ->
                       n = t /\ ~needsFunctionResponse(events[t])
                  [] OTHER -> n = t

C6_Witness ==
  /\ srv.pc = "ended"
  /\ \E i \in 1..Len(events) : events[i].type = "chunk"
  /\ \E i \in 1..Len(events) : events[i].type = "functionCalls"

\* C7 (as stated): the text sendMessageStream resolves with is the
\* concatenation, in receipt order, of the texts handed to onChunk.
C7_TextIsChunksInOrder ==
  (kind = "stream" /\ Resolved) => outcome.text = Concat(chunksSeen)

\* the memory records a function response carries to the model
ResultsOf(fr) ==
  IF "results" \in DOMAIN fr.response.result THEN fr.response.result.results ELSE <<>>

\* C8: no search_memory result sent to the model (by sendMessage, by
\* sendMessageStream, or waiting to be sent) and no entry of the assembled
\* context block holds a record's mediaData or embedding field.
C8_NoHeavyFieldsForwarded ==
  LET \* the two fields that must not reach the model
      HeavyFields == {"mediaData", "embedding"}
      NoHeavyFields(frs) ==
        \A k \in 1..Len(frs) :
          LET results == ResultsOf(frs[k])
          IN \A i \in 1..Len(results) : DOMAIN results[i] \cap HeavyFields = {}
      \* the prefixes of the contents of the stored records
      Prefixes == {slice(store[r].content, ContextContentLimit) : r \in 1..Len(store)}
      \* an entry of the context block holds a position and a prefix of the content
      \* of a stored record, and nothing else
      ContextEntryOK(e) ==
        /\ DOMAIN e = {"memory", "content", "ellipsis"}
        /\ e.content \in Prefixes
  IN
  /\ \A q \in 1..Len(requests) : NoHeavyFields(requests[q].frs)
  /\ \A q \in 1..Len(inputs) : NoHeavyFields(inputs[q].frs)
  /\ \A f \in 1..Len(frames) : NoHeavyFields(frames[f].resp) /\ NoHeavyFields(frames[f].frs)
  /\ \A i \in 1..Len(assembled.context) : ContextEntryOK(assembled.context[i])
  /\ \A q \in 1..Len(inputs) : \A i \in 1..Len(inputs[q].context) :
       ContextEntryOK(inputs[q].context[i])

\* a record that holds both heavy fields in the store was sent to the model
\* in a tool result and in the context block
C8_Witness ==
  /\ IsSome(store[2].mediaData) /\ IsSome(store[2].embedding)
  /\ \E q \in 1..Len(inputs) : \E k \in 1..Len(inputs[q].frs) :
       \E i \in 1..Len(ResultsOf(inputs[q].frs[k])) : ResultsOf(inputs[q].frs[k])[i].id = 2
  /\ \E i \in 1..Len(inputs[1].context) : inputs[1].context[i].content = store[2].content

\* C9: every set of function responses sent to the model answers a batch the
\* model issued, with exactly one response per call carrying its id, its name
\* and {result: ...}; in a turn without transport failure the input after a
\* batch is the answer to that batch.
C9_OneResponsePerCall ==
  LET \* frs answers the batch: one response per call, in order, with the call's id
      \* and name and a response of the form {result: ...}
      Answers(frs, calls) ==
        /\ Len(frs) = Len(calls)
        /\ \A k \in 1..Len(calls) :
             /\ frs[k].id = calls[k].id
             /\ frs[k].name = calls[k].name
             /\ DOMAIN frs[k].response = {"result"}
  IN
  /\ \A q \in 1..Len(requests) :
       Len(requests[q].frs) > 0 =>
         \E i \in 1..Len(modelLog) : Answers(requests[q].frs, modelLog[i].calls)
  /\ \A q \in 1..Len(inputs) :
       inputs[q].type = "functionResponses" =>
         \E i \in 1..(q - 1) : Answers(inputs[q].frs, modelLog[i].calls)
  /\ Clean => \A q \in 2..Len(inputs) : Answers(inputs[q].frs, modelLog[q - 1].calls)

\* the model was sent the answer to a call whose tool threw and to a call of
\* an unknown tool
C9_Witness ==
  /\ \E q \in 1..Len(inputs) : \E k \in 1..Len(inputs[q].frs) :
       inputs[q].frs[k].response = [result |-> [error |-> AddMemoryError]]
  /\ \E q \in 1..Len(inputs) : \E k \in 1..Len(inputs[q].frs) :
       /\ inputs[q].frs[k].name = "get_weather"
       /\ inputs[q].frs[k].response = [result |-> [error |-> "Unknown tool"]]

\* C10 (as stated): a memory search whose embedding request failed still ran
\* its keyword search and found exactly the keyword matches.
C10_KeywordOnlyFallback ==
  (IsSome(lastSearch) /\ Val(lastSearch).embedFailed) =>
    /\ Val(lastSearch).keywordRan
    /\ Val(lastSearch).found = Val(lastSearch).keyword

\* C11 (as stated): in every flow that creates a memory (the save_memory tool,
\* a manual diary entry, the chunks of an uploaded file) a failed embedding
\* request still leaves the record stored, without an embedding, and
\* save_memory reports success.
C11_SavedWithoutEmbedding ==
  LET \* the record carries no usable embedding: none at all, or an empty vector
      NoEmbedding(rec) == ~IsSome(rec.embedding) \/ Val(rec.embedding) = <<>>
      \* the tool result reports a successful save
      ReportsSuccess(reported) ==
        IsSome(reported) /\ "success" \in DOMAIN Val(reported) /\ Val(reported).success
  IN
  \A i \in 1..Len(saves) :
    saves[i].embedFailed =>
      /\ IsSome(saves[i].record)
      /\ NoEmbedding(Val(saves[i].record))
      /\ saves[i].site \in {"tool", "local"} => ReportsSuccess(saves[i].reported)

\* C12 (as stated): a save_memory call without content or category and a
\* search_memory call without query is rejected before execution: no
\* embedding request and no Memory Store call is made for it, it creates no
\* record, and its tool result is {error}.
C12_MalformedRejected ==
  LET \* the call lacks an argument its tool's declaration requires
      Malformed(call) ==
        \/ call.name = "save_memory" /\ (~Has(call.args, "content") \/ ~Has(call.args, "category"))
        \/ call.name = "search_memory" /\ ~Has(call.args, "query")
  IN
  \A j \in 1..Len(toolLog) :
    Malformed(toolLog[j].call) =>
      /\ ~toolLog[j].embedRequested
      /\ ~toolLog[j].storeCalled
      /\ toolLog[j].created = 0
      /\ "error" \in DOMAIN toolLog[j].result

\* the ids of seq, in order, that are not among those of known
NotIn(seq, known) == SelectSeq(seq, LAMBDA id : \A i \in 1..Len(known) : known[i] # id)

\* C13: the merged list of a memory search is its vector results in their
\* order followed by the keyword results whose id is not among them, in
\* their order, and holds no id twice.
C13_MergeKeepsOrderAndIds ==
  LET NoDuplicates(seq) == \A i, j \in 1..Len(seq) : seq[i] = seq[j] => i = j
  IN
  (IsSome(lastSearch) /\ Val(lastSearch).keywordRan) =>
    LET o == Val(lastSearch)
    IN /\ o.found = o.vector \o NotIn(o.keyword, o.vector)
       /\ NoDuplicates(o.found)

\* a search_memory call whose vector and keyword results share a record and
\* whose keyword results hold one more
C13_Witness ==
  /\ IsSome(lastSearch) /\ Val(lastSearch).site = "tool"
  /\ \E i \in 1..Len(Val(lastSearch).vector) : \E j \in 1..Len(Val(lastSearch).keyword) :
       Val(lastSearch).vector[i] = Val(lastSearch).keyword[j]
  /\ NotIn(Val(lastSearch).keyword, Val(lastSearch).vector) # <<>>
  /\ Len(Val(lastSearch).vector) >= 2

\* C14 (as stated): for a merged list of n records search_memory returns
\* found = n and the sanitized first min(n, 8) records in merged order, and
\* the same records, unsanitized, are handed to the UI observer, in every
\* path that executes search_memory.
C14_FoundAndTopEight ==
  LET \* the executed call is a search_memory that has returned its merged list
      SearchDone(entry) == entry.call.name = "search_memory" /\ IsSome(entry.combined)
  IN
  \A j \in 1..Len(toolLog) :
    SearchDone(toolLog[j]) =>
      LET combined == Val(toolLog[j].combined)
          top == SubSeq(combined, 1, IF Len(combined) < ContextLimit THEN Len(combined)
                                     ELSE ContextLimit)
      IN /\ toolLog[j].result.found = Len(combined)
         /\ toolLog[j].result.results = [i \in 1..Len(top) |-> sanitize(top[i])]
         /\ toolLog[j].ui = Some([found |-> Len(combined), results |-> top])

\* ---------------------------------------------------------------------------
\* The server's session cache (src/server/routes/chat.ts). The server of this
\* part runs with Supabase and a server-wide key configured: authenticateUser
\* yields null or the id of the token's user, and a user's Gemini client is
\* made from the key fetched from the user_api_keys table.

\* the chat requests the server receives
MaxSessionRequests == 3
\* the resets and clears the server receives
MaxClears == 2

cServer == <<"s", "e", "r", "v", "e", "r">>
cUserA == <<"u", "a">>

\* `${sessionId}-${userId || 'server'}`
cacheKey(sessionId, userId) ==
  sessionId \o <<"-">> \o (IF IsSome(userId) THEN Val(userId) ELSE cServer)

\* chatSessions.has(key), .get(key), .set(key, chat) and .delete(key)
hasSession(sessions, key) == \E e \in sessions : e.key = key
getSession(sessions, key) == (CHOOSE e \in sessions : e.key = key).chat
deleteSession(sessions, key) == {e \in sessions : e.key # key}
setSession(sessions, key, chat) ==
  deleteSession(sessions, key) \cup {[key |-> key, chat |-> chat]}

\* clearUserChatSessions: every key that ends with -<userId>, or with -server
\* for a null userId, is deleted
clearUserChatSessions(sessions, userId) ==
  LET \* String.prototype.endsWith
      endsWith(key, suffix) ==
        /\ Len(key) >= Len(suffix)
        /\ SubSeq(key, Len(key) - Len(suffix) + 1, Len(key)) = suffix
  IN
  {e \in sessions :
     ~endsWith(e.key, <<"-">> \o (IF IsSome(userId) THEN Val(userId) ELSE cServer))}

\* getGeminiClientForUser answers without waiting for the database when the
\* userId is null (the server-wide client) or the user's client is cached
clientAtOnce(clients, userId) == ~IsSome(userId) \/ Val(userId) \in clients
clientKey(userId) == IF IsSome(userId) THEN Val(userId) ELSE cServer

\* the Chats created before the last reset of the sessionId, when no request
\* with the sessionId has arrived since and none was in progress at the reset
resetOf(sessionId) ==
  IF \E r \in resets : r.sessionId = sessionId
    THEN Some((CHOOSE r \in resets : r.sessionId = sessionId).chats)
    ELSE None

\* a route handler that holds the Chat getChatSession returned
Got(h, chat) == [h EXCEPT !.pc = "got", !.chat = chat, !.epoch = epoch]

RemoveAt(seq, i) == SubSeq(seq, 1, i - 1) \o SubSeq(seq, i + 1, Len(seq))

\* a chat route (/message, /message-stream, /function-response) receives a
\* request and calls getChatSession, which runs up to its await: a cached
\* Chat is returned; otherwise the client is asked for, and when it comes
\* at once the Chat is created and cached in the same turn of the event loop
BeginRequest(sessionId, userId) ==
  /\ Len(served) + Len(handlers) < MaxSessionRequests
  /\ LET key == cacheKey(sessionId, userId)
         h == [sessionId |-> sessionId, userId |-> userId, pc |-> "await", chat |-> 0,
               epoch |-> epoch, afterReset |-> resetOf(sessionId)]
         chat == Len(chatHistory) + 1
     IN IF hasSession(chatSessions, key)
          THEN /\ handlers' = Append(handlers, Got(h, getSession(chatSessions, key)))
               /\ UNCHANGED <<chatSessions, chatHistory, userClients>>
          ELSE IF clientAtOnce(userClients, userId)
            THEN /\ userClients' = userClients \cup {clientKey(userId)}
                 /\ chatHistory' = Append(chatHistory, 0)
                 /\ chatSessions' = setSession(chatSessions, key, chat)
                 /\ handlers' = Append(handlers, Got(h, chat))
            ELSE /\ handlers' = Append(handlers, h)
                 /\ UNCHANGED <<chatSessions, chatHistory, userClients>>
  /\ resets' = {r \in resets : r.sessionId # sessionId}
  /\ UNCHANGED <<mainVars, cacheVars, served, epoch>>

\* the user's key arrives from the database: getGeminiClientForUser caches a
\* new client and getChatSession creates the Chat, caches it under the key and
\* returns what the cache holds; without a key the handler answers 500
ClientReady(i, hasKey) ==
  /\ i \in 1..Len(handlers) /\ handlers[i].pc = "await"
  /\ LET h == handlers[i]
         key == cacheKey(h.sessionId, h.userId)
         chat == Len(chatHistory) + 1
     IN IF hasKey
          THEN /\ userClients' = userClients \cup {clientKey(h.userId)}
               /\ chatHistory' = Append(chatHistory, 0)
               /\ chatSessions' = setSession(chatSessions, key, chat)
               /\ handlers' = [handlers EXCEPT ![i] = Got(h, chat)]
               /\ UNCHANGED served
          ELSE /\ served' = Append(served, [sessionId |-> h.sessionId, userId |-> h.userId,
                                            chat |-> None, history |-> 0, epoch |-> epoch,
                                            afterReset |-> h.afterReset])
               /\ handlers' = RemoveAt(handlers, i)
               /\ UNCHANGED <<chatSessions, chatHistory, userClients>>
  /\ UNCHANGED <<mainVars, cacheVars, resets, epoch>>

\* the Chat answers the handler's message, which joins the Chat's history
Answer(i) ==
  /\ i \in 1..Len(handlers) /\ handlers[i].pc = "got"
  /\ LET h == handlers[i]
     IN /\ served' = Append(served, [sessionId |-> h.sessionId, userId |-> h.userId,
                                     chat |-> Some(h.chat), history |-> chatHistory[h.chat],
                                     epoch |-> h.epoch, afterReset |-> h.afterReset])
        /\ chatHistory' = [chatHistory EXCEPT ![h.chat] = @ + 1]
  /\ handlers' = RemoveAt(handlers, i)
  /\ UNCHANGED <<mainVars, cacheVars, chatSessions, userClients, resets, epoch>>

\* POST /api/chat/reset: the entry whose key is the sessionId is deleted
Reset(sessionId) ==
  /\ epoch < MaxClears
  /\ chatSessions' = IF hasSession(chatSessions, sessionId)
                       THEN deleteSession(chatSessions, sessionId)
                       ELSE chatSessions
  /\ resets' = {r \in resets : r.sessionId # sessionId} \cup
                  (IF \E i \in 1..Len(handlers) : handlers[i].sessionId = sessionId
                     THEN {}
                     ELSE {[sessionId |-> sessionId, chats |-> Len(chatHistory)]})
  /\ epoch' = epoch + 1
  /\ UNCHANGED <<mainVars, cacheVars, chatHistory, userClients, handlers, served>>

\* a user's API key is saved: the user's sessions and client are dropped
SaveApiKey(userId) ==
  /\ epoch < MaxClears
  /\ IsSome(userId)
  /\ chatSessions' = clearUserChatSessions(chatSessions, userId)
  /\ userClients' = userClients \ {Val(userId)}
  /\ epoch' = epoch + 1
  /\ UNCHANGED <<mainVars, cacheVars, chatHistory, handlers, served, resets>>

SessionNext ==
  LET cSession1 == <<"s", "1">>
      cSession2 == <<"s", "2">>
      \* the sessionId of a request body
      SessionIds == {cSession1, cSession2}
      \* the userId authenticateUser attaches to a request
      UserIds == {None, Some(cUserA)}
  IN
  \/ \E sessionId \in SessionIds : \E userId \in UserIds : BeginRequest(sessionId, userId)
  \/ \E i \in 1..MaxSessionRequests : \E hasKey \in BOOLEAN : ClientReady(i, hasKey)
  \/ \E i \in 1..MaxSessionRequests : Answer(i)
  \/ \E sessionId \in SessionIds : Reset(sessionId)
  \/ \E userId \in UserIds : SaveApiKey(userId)

SessionSpec == Init /\ [][SessionNext]_vars

\* the requests answered by a Chat
Answered == {i \in 1..Len(served) : IsSome(served[i].chat)}

\* C15 (as stated): the first message that arrives with a sessionId after a
\* POST /api/chat/reset with that sessionId (no request with it being in
\* progress at the reset) is answered by a Chat created after the reset,
\* which holds no earlier history.
C15_ResetGivesFreshChat ==
  \A i \in Answered :
    IsSome(served[i].afterReset) => Val(served[i].chat) > Val(served[i].afterReset)

\* C16 (as stated): two calls of getChatSession with the same (sessionId,
\* userId) pair that return with no reset or clear between them return the
\* same Chat, and no Chat is returned for two different pairs.
C16_KeyedPerPair ==
  \A i \in Answered : \A j \in Answered :
    LET samePair == /\ served[i].sessionId = served[j].sessionId
                    /\ served[i].userId = served[j].userId
    IN /\ (samePair /\ served[i].epoch = served[j].epoch) => served[i].chat = served[j].chat
       /\ served[i].chat = served[j].chat => samePair

\* ---------------------------------------------------------------------------
\* The cache in front of the Supabase store (src/services/cache.ts,
\* src/services/supabase-db.ts). The client of this part runs with Supabase
\* available and a signed-in user, whose id is cached by getCachedUserId.

\* the store operations called
MaxOps == 3
\* the steps of the client's clock
MaxTicks == 3

\* the time to live of a cached list and of a cached conversation
ListTTL == 30000
ConversationTTL == 300000

\* CACHE_KEYS.memories, .conversations and .conversation
memoriesKey(userId) == [kind |-> "memories", userId |-> userId, id |-> ""]
conversationsKey(userId) == [kind |-> "conversations", userId |-> userId, id |-> ""]
conversationKey(userId, id) == [kind |-> "conversation", userId |-> userId, id |-> id]

\* the table a key's value is read from, and the value's time to live
TableOf(key) == IF key.kind = "memories" THEN "memories" ELSE "conversations"
ttlOf(key) == IF key.kind = "conversation" THEN ConversationTTL ELSE ListTTL

\* SimpleCache.set
cacheSet(c, key, data, ttl, now) ==
  [k \in DOMAIN c \cup {key} |->
     IF k = key THEN [data |-> data, timestamp |-> now, expiresIn |-> ttl] ELSE c[k]]

cacheDelete(c, key) == [k \in DOMAIN c \ {key} |-> c[k]]

\* SimpleCache.get: the data (None for null) and the cache it leaves, an
\* entry older than its time to live being deleted
cacheGet(c, key, now) ==
  IF key \notin DOMAIN c THEN [data |-> None, cache |-> c]
  ELSE IF now - c[key].timestamp > c[key].expiresIn
    THEN [data |-> None, cache |-> cacheDelete(c, key)]
    ELSE [data |-> Some(c[key].data), cache |-> c]

\* SimpleCache.invalidate with a pattern that holds no '*', as the store's
\* writes call it: the key equal to the pattern is deleted
invalidate(c, pattern) == cacheDelete(c, pattern)

\* what the select of a read returns: the rows of the table as they are, with
\* the write they were last changed by; for one conversation its row, or None
\* when .single() finds no row
query(t, key) ==
  [value |-> IF key.kind = "conversation"
               THEN IF \E r \in t.conversations.rows : r.id = key.id
                      THEN Some(CHOOSE r \in t.conversations.rows : r.id = key.id)
                      ELSE None
               ELSE Some(t[TableOf(key)].rows),
   ver |-> t[TableOf(key)].ver]

\* the table after the insert, delete or upsert of a write
written(t, op, arg) ==
  LET table == IF op \in {"addMemory", "deleteMemory"} THEN "memories" ELSE "conversations"
      ver == t[table].ver + 1
      rows == t[table].rows
  IN [t EXCEPT ![table] =
        [ver |-> ver,
         rows |-> CASE op = "addMemory" -> rows \cup {ver + 1}
                    [] op = "deleteMemory" -> rows \ {arg}
                    [] op = "saveConversation" ->
                         {r \in rows : r.id # arg} \cup {[id |-> arg, rev |-> ver]}
                    [] OTHER -> {r \in rows : r.id # arg}]]

\* the keys a write invalidates once Supabase has answered without an error
invalidated(op, arg) ==
  IF op \in {"addMemory", "deleteMemory"} THEN <<memoriesKey(cUserA)>>
  ELSE <<conversationsKey(cUserA), conversationKey(cUserA, arg)>>

RECURSIVE invalidateAll(_, _)
invalidateAll(c, patterns) ==
  IF patterns = <<>> THEN c ELSE invalidateAll(invalidate(c, Head(patterns)), Tail(patterns))

\* getAllMemories, getConversations or getConversation is called: a cached
\* value that has not expired is returned; otherwise the select is sent
CallRead(key, useCache) ==
  /\ nops < MaxOps
  /\ nops' = nops + 1
  /\ LET g == IF useCache THEN cacheGet(ttlCache, key, clockMs)
              ELSE [data |-> None, cache |-> ttlCache]
         began == resolvedVer[TableOf(key)]
     IN /\ ttlCache' = g.cache
        /\ IF IsSome(g.data)
             THEN /\ readLog' = Append(readLog, [key |-> key, value |-> Val(g.data).value,
                                                 ver |-> Val(g.data).ver, cached |-> TRUE,
                                                 began |-> began])
                  /\ UNCHANGED pendingOps
             ELSE /\ pendingOps' = Append(pendingOps,
                                          [op |-> "read", key |-> key, arg |-> 0, ok |-> TRUE,
                                           snap |-> Some(query(tables, key)), began |-> began,
                                           ver |-> 0])
                  /\ UNCHANGED readLog
  /\ UNCHANGED <<mainVars, sessionVars, clockMs, tables, resolvedVer>>

\* the answer of a select arrives: an error or a missing row is returned as
\* [] or null and nothing is cached; otherwise the value is cached and returned
ReadReturns(i, ok) ==
  /\ i \in 1..Len(pendingOps) /\ pendingOps[i].op = "read"
  /\ LET o == pendingOps[i]
         snap == Val(o.snap)
     IN IF ok /\ IsSome(snap.value)
          THEN /\ ttlCache' = cacheSet(ttlCache, o.key, snap, ttlOf(o.key), clockMs)
               /\ readLog' = Append(readLog, [key |-> o.key, value |-> snap.value,
                                              ver |-> snap.ver, cached |-> FALSE,
                                              began |-> o.began])
          ELSE /\ readLog' = Append(readLog, [key |-> o.key, value |-> None,
                                              ver |-> snap.ver, cached |-> FALSE,
                                              began |-> o.began])
               /\ UNCHANGED ttlCache
  /\ pendingOps' = RemoveAt(pendingOps, i)
  /\ UNCHANGED <<mainVars, sessionVars, clockMs, tables, resolvedVer, nops>>

\* addMemory, deleteMemory, saveConversation or deleteConversation is called
\* and Supabase carries it out, or fails to
CallWrite(w, ok) ==
  /\ nops < MaxOps
  /\ nops' = nops + 1
  /\ tables' = IF ok THEN written(tables, w.op, w.arg) ELSE tables
  /\ pendingOps' = Append(pendingOps,
                          [op |-> w.op, key |-> invalidated(w.op, w.arg)[1], arg |-> w.arg,
                           ok |-> ok, snap |-> None, began |-> 0,
                           ver |-> tables'[TableOf(invalidated(w.op, w.arg)[1])].ver])
  /\ UNCHANGED <<mainVars, sessionVars, ttlCache, clockMs, readLog, resolvedVer>>

\* the answer of a write arrives: an error is thrown; otherwise the write's
\* keys are invalidated and the call resolves
WriteReturns(i) ==
  /\ i \in 1..Len(pendingOps) /\ pendingOps[i].op # "read"
  /\ LET o == pendingOps[i]
         table == TableOf(o.key)
     IN IF o.ok
          THEN /\ ttlCache' = invalidateAll(ttlCache, invalidated(o.op, o.arg))
               /\ resolvedVer' = [resolvedVer EXCEPT ![table] = IF o.ver > @ THEN o.ver ELSE @]
          ELSE UNCHANGED <<ttlCache, resolvedVer>>
  /\ pendingOps' = RemoveAt(pendingOps, i)
  /\ UNCHANGED <<mainVars, sessionVars, clockMs, tables, readLog, nops>>

\* time passes
Tick ==
  LET \* the milliseconds of one step of the clock
      TickMs == 15000
  IN
  /\ clockMs < MaxTicks * TickMs
  /\ clockMs' = clockMs + TickMs
  /\ UNCHANGED <<mainVars, sessionVars, ttlCache, tables, pendingOps, readLog, resolvedVer, nops>>

CacheNext ==
  LET ConvIds == {"c1"}
  IN
  LET \* the ids a memory and a conversation are deleted or saved by
      MemoryIds == {1, 2}
      CacheKeys ==
        {memoriesKey(cUserA), conversationsKey(cUserA)} \cup {conversationKey(cUserA, id) : id \in ConvIds}
      WriteOps ==
        {[op |-> "addMemory", arg |-> 0]} \cup
        {[op |-> "deleteMemory", arg |-> id] : id \in MemoryIds} \cup
        {[op |-> o, arg |-> id] : o \in {"saveConversation", "deleteConversation"}, id \in ConvIds}
  IN
  \/ \E key \in CacheKeys : \E useCache \in BOOLEAN : CallRead(key, useCache)
  \/ \E i \in 1..MaxOps : \E ok \in BOOLEAN : ReadReturns(i, ok)
  \/ \E w \in WriteOps : \E ok \in BOOLEAN : CallWrite(w, ok)
  \/ \E i \in 1..MaxOps : WriteReturns(i)
  \/ Tick

CacheSpec == Init /\ [][CacheNext]_vars

\* C17 (as stated): a read called after a write of its table has resolved
\* never returns a cached value that was read from the table before that
\* write, also when a read was awaiting its answer while the write ran.
C17_CacheInvalidatedOnWrite ==
  \A i \in 1..Len(readLog) : readLog[i].cached => readLog[i].ver >= readLog[i].began

\* ---------------------------------------------------------------------------
\* C18: when the embedding request or a search throws while the context of a
\* personal question is assembled, handleSendMessage goes on to its call of
\* sendMessageStream, and calls it with an empty context block.
C18_AssemblyFailureSendsEmptyContext ==
  [][/\ (assembled' # assembled /\ assembled'.failed) =>
          (kind' = "assembled" /\ assembled'.context = <<>>)
     /\ (kind = "assembled" /\ assembled.failed) =>
          (kind' = "stream" /\ frames' = <<Frame(TRUE, assembled.att, <<>>, <<>>)>>)]_vars

\* a turn whose assembly threw, though the store holds records its keyword
\* searches find, has sent its first request, without a context
C18_Witness ==
  /\ kind = "stream" /\ assembled.personal /\ assembled.failed
  /\ Len(requests) > 0 /\ requests[1].message /\ requests[1].context = <<>>
  /\ allKeywordResults(store, keywordQueries(assembled.text), <<>>) # <<>>

\* ---------------------------------------------------------------------------

\* C19 (as stated): when a turn fails after some text was streamed, the
\* message list ends with "Error processing request." and still holds a model
\* message whose text is the concatenation of the chunks received, whatever
\* tool-call status was shown in between.
C19_PartialTextKept ==
  LET \* sendMessageStream has rejected and the turn's catch has run
      TurnFailed == kind = "stream" /\ frames = <<>> /\ outcome.status = "rejected"
  IN
  (TurnFailed /\ Concat(chunksSeen) # <<>>) =>
    /\ messages[Len(messages)].text = cErrorProcessing
    /\ \E i \in 1..(Len(messages) - 1) :
         messages[i].role = "model" /\ messages[i].text = Concat(chunksSeen)

\* ---------------------------------------------------------------------------
\* The keyword search of the two stores (src/unnamed/part_003,
\* src/services/supabase-db.ts), applied to the records of the store.

\* the searches made
MaxSearches == 2

\* the notes added between the searches
MaxNotes == 1

\* .limit(50) and .slice(0, 50); .limit(100) of the rows scanned for tags
SupabaseLimit == 50
TagScanLimit == 100

\* the queries searched for: one word, a word of two letters, two words, a
\* tag and a media filename
SearchQueries ==
  LET cJob == <<"j", "o", "b">>
      cAt == <<"a", "t">>
      cAcmeDog == cAcme \o <<" ">> \o cDog
  IN {cAcme, cDog, cAt, cAcmeDog, cJob, cCatPng}

\* searchMemories of the Supabase store: the rows whose content or category
\* is ilike %query%, and of the newest rows those with a tag that includes
\* the lower-cased query; deduplicated by id, newest first, at most 50
searchMemoriesSupabase(st, queryStr) ==
  LET \* order('created_at', {ascending: false}); rows created at the same time
      \* are kept in the order of their ids
      newestFirst(rows) == StableSort(rows, LAMBDA a, b : a.timestamp > b.timestamp)
  IN
  LET queryLower == toLowerCase(queryStr)
      contentResults ==
        slice(newestFirst(SelectSeq(st, LAMBDA m : includes(toLowerCase(m.content), queryLower))),
              SupabaseLimit)
      categoryResults ==
        slice(newestFirst(SelectSeq(st, LAMBDA m : includes(toLowerCase(m.category), queryLower))),
              SupabaseLimit)
      filteredTagResults ==
        SelectSeq(slice(newestFirst(st), TagScanLimit),
                  LAMBDA m : \E t \in 1..Len(m.tags) : includes(toLowerCase(m.tags[t]), queryLower))
      allResults == merge(merge(contentResults, categoryResults), filteredTagResults)
  IN slice(newestFirst(allResults), SupabaseLimit)

\* searchMemories(query) is called on the IndexedDB store or on the Supabase
\* store that holds the same records
Search(impl, queryStr) ==
  /\ Len(searchLog) < MaxSearches
  /\ searchLog' = Append(searchLog,
                         [impl |-> impl, query |-> queryStr,
                          st |-> store,
                          results |-> Ids(IF impl = "indexeddb" THEN searchMemories(store, queryStr)
                                          ELSE searchMemoriesSupabase(store, queryStr))])
  /\ UNCHANGED <<turnVars, sessionVars, cacheVars, vectorLog, cosineLog, turn, sideVars>>

\* addMemory(content, ...) of a text note: the record is stored under the next
\* key with the time of the call
AddMemory(content, embedding) ==
  /\ \E c \in Corpora : Len(store) < Len(c) + MaxNotes
  /\ store' = addMemory(store, clock, content, None, None, "text", None, None, None, embedding)
  /\ clock' = clock + 1
  /\ UNCHANGED <<sessionVars, cacheVars, kind, frames, srv, events, rd, nreq, nchunks,
                 nfail, nfault, inputs, modelLog, toolLog, requests, chunksSeen, related,
                 lastSearch, outcome, nerr, assembled, modal, saves, messages, limits, searchVars, turn,
                 sideVars>>

SearchNext ==
  \/ \E impl \in {"indexeddb", "supabase"} : \E queryStr \in SearchQueries : Search(impl, queryStr)
  \/ AddMemory(cAcme, None)

SearchSpec == Init /\ [][SearchNext]_vars

\* C20 (as stated): searchMemories(query) returns a record if and only if a
\* token of the query of length > 2 matches it, in the IndexedDB store and
\* in the Supabase store alike.
C20_ReturnsIffTokenMatches ==
  LET \* a whitespace-separated token of the query, longer than two characters, is
      \* a case-insensitive substring of the record's content, category, one of its
      \* tags or its media filename
      tokenMatches(mem, queryStr) ==
        \E k \in 1..Len(split(toLowerCase(queryStr))) :
          LET token == split(toLowerCase(queryStr))[k]
          IN /\ Len(token) > MinKeywordLen
             /\ \/ includes(toLowerCase(mem.content), token)
                \/ includes(toLowerCase(mem.category), token)
                \/ \E t \in 1..Len(mem.tags) : includes(toLowerCase(mem.tags[t]), token)
                \/ (IsSome(mem.mediaName) /\ includes(toLowerCase(Val(mem.mediaName)), token))
  IN
  \A k \in 1..Len(searchLog) : \A i \in 1..Len(searchLog[k].st) :
    (\E j \in 1..Len(searchLog[k].results) : searchLog[k].results[j] = searchLog[k].st[i].id)
      <=> tokenMatches(searchLog[k].st[i], searchLog[k].query)

\* the record of a logged search that has this id
recordOf(entry, id) == CHOOSE m \in {entry.st[i] : i \in 1..Len(entry.st)} : m.id = id

\* the number of (token, field) pairs of a query and a record with the token
\* a substring of the field, over content, category and tags
pairScore(mem, queryStr) ==
  LET tokens == SelectSeq(split(toLowerCase(queryStr)), LAMBDA k : Len(k) > MinKeywordLen)
      hit(f, k) ==
        CASE f = "content" -> includes(toLowerCase(mem.content), k)
          [] f = "category" -> includes(toLowerCase(mem.category), k)
          [] OTHER -> \E t \in 1..Len(mem.tags) : includes(toLowerCase(mem.tags[t]), k)
  IN Cardinality({p \in (1..Len(tokens)) \X {"content", "category", "tags"} :
                    hit(p[2], tokens[p[1]])})

MaxCosines == 2

\* cosineSimilarity(vecA, vecB) and cosineSimilarity(vecB, vecA) are computed
CosineSimilarity(vecA, vecB) ==
  /\ Len(cosineLog) < MaxCosines
  /\ cosineLog' = Append(cosineLog, [a |-> vecA, b |-> vecB,
                                     ab |-> cosineSimilarity(vecA, vecB),
                                     ba |-> cosineSimilarity(vecB, vecA)])
  /\ UNCHANGED <<turnVars, sessionVars, cacheVars, searchLog, vectorLog, turn, sideVars>>

CosineNext ==
  LET \* the vectors: two components, each of them -1, 0 or 1
      Vectors == {<<x, y>> : x \in {-1, 0, 1}, y \in {-1, 0, 1}}
  IN          \E vecA \in Vectors : \E vecB \in Vectors : CosineSimilarity(vecA, vecB)

CosineSpec == Init /\ [][CosineNext]_vars

MaxVectorSearches == 2

\* vectorSearchMemories(queryEmbedding, limit) is called; without a second
\* argument the limit is VectorLimit
VectorSearch(queryEmbedding, limit) ==
  /\ Len(vectorLog) < MaxVectorSearches
  /\ vectorLog' = Append(vectorLog,
                         [query |-> queryEmbedding, limit |-> limit, st |-> store,
                          results |-> Ids(vectorSearchMemories(store, queryEmbedding, limit))])
  /\ UNCHANGED <<turnVars, sessionVars, cacheVars, searchLog, cosineLog, turn, sideVars>>

VectorNext ==
  \/ \E queryEmbedding \in {<<1, 1>>, <<0, 1>>, <<0, 0>>} : \E limit \in {1, 2, VectorLimit} :
       VectorSearch(queryEmbedding, limit)
  \/ \E embedding \in {<<1, 1>>, <<0, -1>>, <<0, 0>>} : AddMemory(cNote, Some(embedding))

VectorSpec == Init /\ [][VectorNext]_vars

\* C22: vectorSearchMemories(queryVector, k) returns at most k records, every
\* one of them a record that has an embedding, ordered by non-increasing
\* cosine similarity to the query vector, and no record left out has a
\* strictly higher similarity than one returned.
C22_TopKBySimilarity ==
  \A k \in 1..Len(vectorLog) :
    LET e == vectorLog[k]
        sim(id) == cosineSimilarity(e.query, Val(recordOf(e, id).embedding))
        higher(x, y) == x.n * y.d > y.n * x.d \/ (x.n * y.d = y.n * x.d /\ x.u > y.u)
        returned == {e.results[j] : j \in 1..Len(e.results)}
    IN /\ Len(e.results) <= e.limit
       /\ Cardinality(returned) = Len(e.results)
       /\ \A id \in returned : IsSome(recordOf(e, id).embedding)
       /\ \A i \in 1..Len(e.results) : \A j \in 1..Len(e.results) :
            i < j => ~higher(sim(e.results[j]), sim(e.results[i]))
       /\ \A i \in 1..Len(e.st) :
            (IsSome(e.st[i].embedding) /\ e.st[i].id \notin returned)
              => /\ Len(e.results) = e.limit
                 /\ \A id \in returned : ~higher(sim(e.st[i].id), sim(id))

\* a search returned as many records as its limit allows, in an order other
\* than the stored one, and left out a record with an embedding that is
\* newer than the ones returned
C22_Witness ==
  \E k \in 1..Len(vectorLog) :
    LET e == vectorLog[k]
    IN /\ Len(e.results) = e.limit /\ e.limit > 1
       /\ e.results[1] > e.results[2]
       /\ \E i \in 1..Len(e.st) :
            /\ IsSome(e.st[i].embedding)
            /\ \A j \in 1..Len(e.results) :
                 e.results[j] # e.st[i].id /\ recordOf(e, e.results[j]).timestamp < e.st[i].timestamp

\* ---------------------------------------------------------------------------
\* Several turns of the assistant view, between which records are deleted in
\* the memories view.

\* the turns of the assistant view
MaxTurns == 2

\* handleSendMessage has returned (after the API-key prompt, or after
\* sendMessageStream has settled) and the next message is sent: the turn's
\* own state starts anew, the store, the context panel and what the turns have
\* met so far stay
NextTurn ==
  /\ turn < MaxTurns
  /\ \/ kind = "prompt"
     \/ kind = "stream" /\ frames = <<>> /\ outcome.status # "running"
  /\ turn' = turn + 1
  /\ kind' = "idle"
  /\ srv' = SrvIdle /\ events' = <<>> /\ rd' = 0
  /\ inputs' = <<>> /\ modelLog' = <<>> /\ toolLog' = <<>> /\ requests' = <<>>
  /\ chunksSeen' = <<>> /\ outcome' = Running /\ lastSearch' = None /\ messages' = <<>>
  /\ assembled' = [text |-> <<>>, att |-> <<>>, personal |-> FALSE, context |-> <<>>,
                   failed |-> FALSE]
  /\ UNCHANGED <<store, clock, frames, related, saves, modal, nreq, nchunks, nfail, nfault, nerr,
                 limits, searchVars, sideVars, sessionVars, cacheVars>>

\* deleteMemory(id), from the memories view, between two turns
DeleteMemory(id) ==
  /\ kind = "idle" /\ turn > 1
  /\ \E i \in 1..Len(store) : store[i].id = id
  /\ store' = SelectSeq(store, LAMBDA m : m.id # id)
  /\ UNCHANGED <<clock, kind, frames, srv, events, rd, nreq, nchunks, nfail, nfault, inputs,
                 modelLog, toolLog, requests, chunksSeen, related, lastSearch, outcome, nerr,
                 assembled, modal, saves, messages, limits, restVars, sessionVars, cacheVars>>

TurnsNext ==
  \/ Next
  \/ NextTurn
  \/ \E id \in 1..3 : DeleteMemory(id)

TurnsSpec == Init /\ [][TurnsNext]_vars

\* C24 (as stated): in a turn classified as a personal question, once the
\* retrieval has completed, the observer holds the records retrieved in that
\* turn, whatever their number (as long as no search_memory call of the turn
\* has published its own results).
C24_ObserverHoldsRetrievedSet ==
  (/\ kind \in {"assembled", "stream"}
   /\ assembled.personal /\ ~assembled.failed
   /\ \A j \in 1..Len(toolLog) : toolLog[j].call.name # "search_memory")
    => Ids(related) = Val(lastSearch).found

\* C25 (as stated): a save_memory call stores the type and the media fields
\* of the first attachment of the turn (type text and no media fields in a
\* turn without attachments), in whichever round of the turn the call is
\* executed, in sendMessage and in sendMessageStream.
C25_SavedMediaOfTheTurn ==
  frames # <<>> =>
    \A j \in 1..Len(saves) :
      (saves[j].site \in {"tool", "local"} /\ IsSome(saves[j].record)) =>
        LET rec == Val(saves[j].record)
            media == mediaOf(frames[1].att)
        IN /\ rec.type = media.type
           /\ rec.mediaData = media.mediaData
           /\ rec.mediaMimeType = media.mediaMimeType
           /\ rec.mediaName = media.mediaName

\* C26 (as stated): in sendMessageStream every tool call of a received
\* functionCalls batch is executed at most once per turn (so one save_memory
\* call creates at most one memory record), also when the follow-up exchange
\* that carries the tool results fails and when the stream ends without a
\* done event.
C26_ExecutedAtMostOnce ==
  kind = "stream" =>
    \A j, k \in 1..Len(toolLog) : toolLog[j].id = toolLog[k].id => j = k

\* ---------------------------------------------------------------------------
\* The browser's store module across a change of the signed-in user
\* (src/services/supabase-db.ts, src/contexts/AuthContext.tsx), with Supabase
\* configured and available.

\* the store operations made
MaxUserOps == 3

\* the times the clock of the browser advances
MaxUserTicks == 2

\* the logins made
MaxLogins == 2

USER_ID_CACHE_TTL == 60000

\* getCachedUserId(): the id it returns, which is also the cachedUserId it
\* leaves, and the userIdCacheTime it leaves
getCachedUserId ==
  IF IsSome(cachedUserId) /\ dateNow - userIdCacheTime < USER_ID_CACHE_TTL
  THEN [userId |-> cachedUserId, time |-> userIdCacheTime]
  ELSE [userId |-> authUser, time |-> dateNow]

\* login(email, password) succeeds for user u
Login(u) ==
  /\ ~IsSome(authUser)
  /\ Cardinality({i \in 1..Len(userLog) : userLog[i].op = "login"}) < MaxLogins
  /\ authUser' = Some(u)
  /\ userLog' = Append(userLog, [op |-> "login", auth |-> Some(u), userId |-> Some(u),
                                 fromCache |-> FALSE, returned |-> <<>>])
  /\ UNCHANGED <<cachedUserId, userIdCacheTime, dateNow, userCache, userTables>>
  /\ UNCHANGED <<turnVars, searchVars, turn, keyVars, viewVars, chunking, sessionVars, cacheVars>>

\* logout(): supabase.auth.signOut(), setUser(null), setSession(null)
Logout ==
  /\ IsSome(authUser)
  /\ authUser' = None
  /\ UNCHANGED <<cachedUserId, userIdCacheTime, dateNow, userCache, userTables, userLog>>
  /\ UNCHANGED <<turnVars, searchVars, turn, keyVars, viewVars, chunking, sessionVars, cacheVars>>

\* half a minute passes
UserTick ==
  /\ dateNow < MaxUserTicks * ListTTL
  /\ dateNow' = dateNow + ListTTL
  /\ UNCHANGED <<authUser, cachedUserId, userIdCacheTime, userCache, userTables, userLog>>
  /\ UNCHANGED <<turnVars, searchVars, turn, keyVars, viewVars, chunking, sessionVars, cacheVars>>

\* the store operations made so far
OpsMade == Cardinality({i \in 1..Len(userLog) : userLog[i].op # "login"})

\* addMemory(content, ...) creating the row with this id
UserAddMemory(id) ==
  /\ OpsMade < MaxUserOps
  /\ \A i \in 1..Len(userTables.memories) : userTables.memories[i].id # id
  /\ LET g == getCachedUserId
     IN /\ cachedUserId' = g.userId /\ userIdCacheTime' = g.time
        /\ IF ~IsSome(g.userId)
           THEN /\ userLog' = Append(userLog, [op |-> "addMemory", auth |-> authUser,
                                               userId |-> None, fromCache |-> FALSE,
                                               returned |-> <<"User not authenticated">>])
                /\ UNCHANGED <<userTables, userCache>>
           ELSE /\ userTables' = [userTables EXCEPT !.memories =
                                    Append(@, [user_id |-> Val(g.userId), id |-> id])]
                /\ userCache' = invalidate(userCache, [kind |-> "memories", userId |-> Val(g.userId),
                                                       id |-> None])
                /\ userLog' = Append(userLog, [op |-> "addMemory", auth |-> authUser,
                                               userId |-> g.userId, fromCache |-> FALSE,
                                               returned |-> <<id>>])
  /\ UNCHANGED <<authUser, dateNow>>
  /\ UNCHANGED <<turnVars, searchVars, turn, keyVars, viewVars, chunking, sessionVars, cacheVars>>

\* getAllMemories(useCache), getConversations(useCache) and
\* getConversation(id, useCache): op is "memories", "conversations" or
\* "conversation", id is None for the two lists
UserRead(op, id, useCache) ==
  /\ OpsMade < MaxUserOps
  /\ LET g == getCachedUserId
     IN /\ cachedUserId' = g.userId /\ userIdCacheTime' = g.time
        /\ IF ~IsSome(g.userId)
           THEN /\ userLog' = Append(userLog, [op |-> op, auth |-> authUser, userId |-> None,
                                               fromCache |-> FALSE, returned |-> <<>>])
                /\ UNCHANGED userCache
           ELSE LET key == [kind |-> op, userId |-> Val(g.userId), id |-> id]
                    cached == IF useCache THEN cacheGet(userCache, key, dateNow)
                              ELSE [data |-> None, cache |-> userCache]
                    table == IF op = "memories" THEN userTables.memories
                             ELSE userTables.conversations
                    data == SelectSeq(table, LAMBDA r :
                                        /\ r.user_id = Val(g.userId)
                                        /\ IsSome(id) => r.id = Val(id))
                    \* .single() of getConversation finds no row
                    notFound == op = "conversation" /\ data = <<>>
                IN IF IsSome(cached.data)
                   THEN /\ userCache' = cached.cache
                        /\ userLog' = Append(userLog, [op |-> op, auth |-> authUser,
                                                       userId |-> g.userId, fromCache |-> TRUE,
                                                       returned |-> Val(cached.data)])
                   ELSE /\ userCache' = IF notFound THEN cached.cache
                                        ELSE cacheSet(cached.cache, key, data, ttlOf(key), dateNow)
                        /\ userLog' = Append(userLog, [op |-> op, auth |-> authUser,
                                                       userId |-> g.userId, fromCache |-> FALSE,
                                                       returned |-> data])
  /\ UNCHANGED <<authUser, dateNow, userTables>>
  /\ UNCHANGED <<turnVars, searchVars, turn, keyVars, viewVars, chunking, sessionVars, cacheVars>>

UserNext ==
  LET Users == {"alice", "bob"}
  IN
  \/ \E u \in Users : Login(u)
  \/ Logout
  \/ UserTick
  \/ UserAddMemory(3)
  \/ \E useCache \in BOOLEAN : UserRead("memories", None, useCache)
  \/ UserRead("conversations", None, TRUE)
  \/ UserRead("conversation", Some("c1"), TRUE)

UserSpec == Init /\ [][UserNext]_vars

\* C27 (as stated): after the signed-in user has changed, addMemory,
\* getAllMemories, getConversations and getConversation act only for the new
\* user: every operation made while a user is signed in uses that user's id
\* for its cache key, its query and its insert, and returns rows of that user
\* only, however soon after the change it is called.
C27_ActsForTheSignedInUser ==
  \A i \in 1..Len(userLog) :
    (userLog[i].op # "login" /\ IsSome(userLog[i].auth)) =>
      /\ userLog[i].userId = userLog[i].auth
      /\ userLog[i].op # "addMemory" =>
           \A r \in 1..Len(userLog[i].returned) :
             userLog[i].returned[r].user_id = Val(userLog[i].auth)

\* ---------------------------------------------------------------------------
\* The server's key store and the caches made from the keys
\* (src/unnamed/part_007, src/server/services/supabase-server.ts,
\* src/server/routes/chat.ts), with and without Supabase configured.

\* the requests the server receives
MaxKeyOps == 4

cKey1 == <<"k", "1">>
cKey2 == <<"k", "2">>
cServerKey == <<"k", "0">>     \* process.env.GEMINI_API_KEY

\* Map.prototype.set and .delete on a map held as a function
mapSet(m, k, v) == [x \in DOMAIN m \cup {k} |-> IF x = k THEN v ELSE m[x]]
mapDelete(m, k) == [x \in DOMAIN m \ {k} |-> m[x]]

\* getUserApiKey(userId): the key, or None for null
getUserApiKey(userId) ==
  IF userId \in DOMAIN userApiKeys THEN Some(userApiKeys[userId])
  ELSE IF ~configured THEN Some(cServerKey)
  ELSE IF userId \in DOMAIN keyTable THEN Some(keyTable[userId])
  ELSE None

\* getGeminiClientForUser(userId) for a user id that is not null: the key of
\* the client it returns (None when it throws) and the Map it leaves
getGeminiClientForUser(userId) ==
  IF userId \in DOMAIN keyClients
  THEN [client |-> Some(keyClients[userId]), clients |-> keyClients]
  ELSE LET apiKey == getUserApiKey(userId)
       IN IF ~IsSome(apiKey) THEN [client |-> None, clients |-> keyClients]
          ELSE [client |-> apiKey, clients |-> mapSet(keyClients, userId, Val(apiKey))]

\* POST /api/api-keys with a key that passes the validation
PostApiKey(userId, apiKey) ==
  /\ Len(keyLog) < MaxKeyOps
  /\ IF ~configured
     THEN /\ userApiKeys' = mapSet(userApiKeys, userId, apiKey)
          /\ UNCHANGED <<keyTable, keySessions, keyClients>>
     ELSE /\ keyTable' = mapSet(keyTable, userId, apiKey)
          /\ keySessions' = clearUserChatSessions(keySessions, Some(userId))
          /\ keyClients' = mapDelete(keyClients, userId)
          /\ UNCHANGED userApiKeys
  /\ keyLog' = Append(keyLog, [route |-> "save", userId |-> userId, used |-> None,
                               current |-> Some(apiKey)])
  /\ UNCHANGED <<configured, userVars, viewVars, chunking>>
  /\ UNCHANGED <<turnVars, searchVars, turn, sessionVars, cacheVars>>

\* DELETE /api/api-keys
DeleteApiKey(userId) ==
  /\ Len(keyLog) < MaxKeyOps
  /\ IF ~configured
     THEN /\ userApiKeys' = mapDelete(userApiKeys, userId)
          /\ UNCHANGED keyTable
     ELSE /\ keyTable' = mapDelete(keyTable, userId)
          /\ UNCHANGED userApiKeys
  /\ keyLog' = Append(keyLog, [route |-> "delete", userId |-> userId, used |-> None,
                               current |-> None])
  /\ UNCHANGED <<configured, keySessions, keyClients, userVars, viewVars, chunking>>
  /\ UNCHANGED <<turnVars, searchVars, turn, sessionVars, cacheVars>>

\* a chat request of the user: getChatSession(sessionId, userName, userId)
\* and then the message sent through the Chat it returns
ChatRequest(sessionId, userId) ==
  /\ Len(keyLog) < MaxKeyOps
  /\ LET key == cacheKey(sessionId, Some(userId))
         g == getGeminiClientForUser(userId)
     IN IF hasSession(keySessions, key)
        THEN /\ keyLog' = Append(keyLog, [route |-> "chat", userId |-> userId,
                                          used |-> Some(getSession(keySessions, key)),
                                          current |-> getUserApiKey(userId)])
             /\ UNCHANGED <<keySessions, keyClients>>
        ELSE /\ keyClients' = g.clients
             /\ keySessions' = IF IsSome(g.client)
                               THEN setSession(keySessions, key, Val(g.client))
                               ELSE keySessions
             /\ keyLog' = Append(keyLog, [route |-> "chat", userId |-> userId,
                                          used |-> g.client,
                                          current |-> getUserApiKey(userId)])
  /\ UNCHANGED <<configured, userApiKeys, keyTable, userVars, viewVars, chunking>>
  /\ UNCHANGED <<turnVars, searchVars, turn, sessionVars, cacheVars>>

\* an embedding or a TTS request of the user: getGeminiClientForUser(userId)
\* and then the call of the client it returns
ClientRequest(route, userId) ==
  /\ Len(keyLog) < MaxKeyOps
  /\ LET g == getGeminiClientForUser(userId)
     IN /\ keyClients' = g.clients
        /\ keyLog' = Append(keyLog, [route |-> route, userId |-> userId, used |-> g.client,
                                     current |-> getUserApiKey(userId)])
  /\ UNCHANGED <<configured, userApiKeys, keyTable, keySessions, userVars, viewVars, chunking>>
  /\ UNCHANGED <<turnVars, searchVars, turn, sessionVars, cacheVars>>

KeyNext ==
  \/ \E apiKey \in {cKey1, cKey2} : PostApiKey(cUserA, apiKey)
  \/ DeleteApiKey(cUserA)
  \/ ChatRequest(<<"s", "1">>, cUserA)
  \/ \E route \in {"embedding", "tts"} : ClientRequest(route, cUserA)

\* the server starts with or without a Supabase client
KeyInit ==
  /\ InitState
  /\ configured \in BOOLEAN
  /\ limits = [failures |-> MaxFailures, requests |-> MaxRequests, malformed |-> FALSE]

KeySpec == KeyInit /\ [][KeyNext]_vars

\* C28 (as stated): after a user's API key has been saved or deleted, no
\* cached Gemini client and no cached chat session of that user made with the
\* previous key remains, and every chat, embedding or TTS request uses a
\* client built from the user's current key, with and without Supabase
\* configured.
C28_NoCacheOfThePreviousKey ==
  /\ \A userId \in DOMAIN keyClients : Some(keyClients[userId]) = getUserApiKey(userId)
  /\ \A e \in keySessions : Some(e.chat) = getUserApiKey(cUserA)
  /\ \A i \in 1..Len(keyLog) :
       IsSome(keyLog[i].used) => keyLog[i].used = keyLog[i].current

\* ---------------------------------------------------------------------------
\* The assistant view and its input area across several sends
\* (src/components/views/AssistantView.tsx, src/components/Sidebar.tsx).

\* the calls of handleSendMessage made
MaxSends == 3

\* the user types a message into the input area
TypeText(text) ==
  /\ inputText = <<>>
  /\ Len(activations) < MaxSends
  /\ inputText' = text
  /\ UNCHANGED <<isLoading, showApiKeyPrompt, activations>>
  /\ UNCHANGED <<turnVars, searchVars, turn, userVars, keyVars, chunking, sessionVars, cacheVars>>

\* InputArea.handleSend() on Enter or on a click of the send button: it
\* returns when the text is blank or the area is disabled; otherwise it calls
\* onSend, that is handleSendMessage, which runs up to its await of
\* hasApiKey(), and clears the input
handleSend ==
  /\ inputText # <<>> /\ ~isLoading
  /\ Len(activations) < MaxSends
  /\ activations' = Append(activations, [text |-> inputText, pc |-> "hasApiKey"])
  /\ inputText' = <<>>
  /\ UNCHANGED <<isLoading, showApiKeyPrompt>>
  /\ UNCHANGED <<turnVars, searchVars, turn, userVars, keyVars, chunking, sessionVars, cacheVars>>

\* hasApiKey() answers activation i: without a key the prompt is shown and
\* handleSendMessage returns; with a key the message is shown, isLoading is
\* set and the turn runs up to its call of sendMessageStream
KeyChecked(i, userHasApiKey) ==
  /\ i \in 1..Len(activations) /\ activations[i].pc = "hasApiKey"
  /\ IF userHasApiKey
     THEN /\ isLoading' = TRUE
          /\ activations' = [activations EXCEPT ![i].pc = "sendMessageStream"]
          /\ UNCHANGED showApiKeyPrompt
     ELSE /\ showApiKeyPrompt' = TRUE
          /\ activations' = [activations EXCEPT ![i].pc = "returned"]
          /\ UNCHANGED isLoading
  /\ UNCHANGED inputText
  /\ UNCHANGED <<turnVars, searchVars, turn, userVars, keyVars, chunking, sessionVars, cacheVars>>

\* sendMessageStream of activation i resolves or rejects, and the rest of
\* handleSendMessage runs: finally { setIsLoading(false) }
TurnFinished(i) ==
  /\ i \in 1..Len(activations) /\ activations[i].pc = "sendMessageStream"
  /\ activations' = [activations EXCEPT ![i].pc = "returned"]
  /\ isLoading' = FALSE
  /\ UNCHANGED <<inputText, showApiKeyPrompt>>
  /\ UNCHANGED <<turnVars, searchVars, turn, userVars, keyVars, chunking, sessionVars, cacheVars>>

ViewNext ==
  \/ \E text \in {cAcme, cDog} : TypeText(text)
  \/ handleSend
  \/ \E i \in 1..MaxSends : \E userHasApiKey \in BOOLEAN : KeyChecked(i, userHasApiKey)
  \/ \E i \in 1..MaxSends : TurnFinished(i)

ViewSpec == Init /\ [][ViewNext]_vars

\* C29 (as stated): the assistant view never has two turns in flight: while
\* one call of sendMessageStream is running, no other call of handleSendMessage
\* has started one, whatever the user types or clicks meanwhile, the time the
\* API-key check is awaited included.
C29_OneTurnInFlight ==
  \A i, j \in 1..Len(activations) :
    (activations[i].pc = "sendMessageStream" /\ activations[j].pc = "sendMessageStream") => i = j

\* ---------------------------------------------------------------------------
\* chunkText (src/services/fileExtraction.ts). Positions are those of the
\* code, counted from 0: the character at position p of text is text[p + 1].

\* the pieces a text is made of
MaxPieces == 4

\* the iterations of the loop that are followed
MaxIterations == 12

\* String.prototype.lastIndexOf(pat, fromIndex): the last position not after
\* fromIndex where pat occurs, or -1
lastIndexOf(s, pat, fromIndex) ==
  LET found == {i \in 0..(Len(s) - Len(pat)) :
                  i <= fromIndex /\ SubSeq(s, i + 1, i + Len(pat)) = pat}
  IN IF found = {} THEN -1 ELSE CHOOSE i \in found : \A j \in found : j <= i

\* the positions text.slice(start, end).trim() keeps: from (included) to
\* (excluded), from = to when nothing is kept
trimmed(s, start, end) ==
  LET stop == IF end < Len(s) THEN end ELSE Len(s)
      kept == {p \in start..(stop - 1) : s[p + 1] \notin {" ", "\n"}}
  IN IF kept = {} THEN [from |-> start, to |-> start]
     ELSE [from |-> CHOOSE p \in kept : \A q \in kept : p <= q,
           to |-> (CHOOSE p \in kept : \A q \in kept : q <= p) + 1]

\* chunkText(text, chunkSize, overlap) is called and runs up to its loop: a
\* text that is empty or blank returns []
CallChunkText(text, chunkSize, overlap) ==
  /\ chunking.pc = "idle"
  /\ chunking' = [pc |-> IF trimmed(text, 0, Len(text)).to = 0 THEN "returned" ELSE "loop",
                  text |-> text, chunkSize |-> chunkSize, overlap |-> overlap, start |-> 0,
                  chunks |-> <<>>, starts |-> <<0>>]
  /\ UNCHANGED <<turnVars, searchVars, turn, userVars, keyVars, viewVars, sessionVars, cacheVars>>

\* one iteration of while (start < text.length)
ChunkLoop ==
  /\ chunking.pc = "loop"
  /\ Len(chunking.starts) <= MaxIterations
  /\ LET text == chunking.text
         start == chunking.start
         chunkSize == chunking.chunkSize
         sentenceEnd == lastIndexOf(text, <<".", " ">>, start + chunkSize)
         paragraphEnd == lastIndexOf(text, <<"\n", "\n">>, start + chunkSize)
         \* x > start + chunkSize * 0.5
         PastHalf(x) == 2 * x > 2 * start + chunkSize
         end == IF start + chunkSize < Len(text)
                THEN IF PastHalf(paragraphEnd) THEN paragraphEnd + 2
                     ELSE IF PastHalf(sentenceEnd) THEN sentenceEnd + 2
                     ELSE start + chunkSize
                ELSE start + chunkSize
         chunk == trimmed(text, start, end)
         next == IF end - chunking.overlap < 0 THEN 0 ELSE end - chunking.overlap
     IN chunking' = [chunking EXCEPT
                       !.chunks = IF chunk.to > chunk.from THEN Append(@, chunk) ELSE @,
                       !.start = next,
                       !.starts = Append(@, next),
                       !.pc = IF next >= Len(text) THEN "returned" ELSE "loop"]
  /\ UNCHANGED <<turnVars, searchVars, turn, userVars, keyVars, viewVars, sessionVars, cacheVars>>

ChunkNext ==
  LET \* the texts that are split
      Texts ==
        LET Pieces == {<<"a", "a">>, <<".", " ">>, <<"\n", "\n">>, <<" ", "a">>}
            Join(ps) == Concat(ps)
        IN UNION {{Join(ps) : ps \in [1..n -> Pieces]} : n \in 0..MaxPieces}
      \* the chunkSize and overlap arguments that are used with them
      ChunkArgs ==
        {a \in [chunkSize : {3, 5, 7}, overlap : {0, 1, 2, 6}] : a.chunkSize > a.overlap}
  IN
  \/ \E text \in Texts, a \in ChunkArgs : CallChunkText(text, a.chunkSize, a.overlap)
  \/ ChunkLoop

ChunkSpec == Init /\ [][ChunkNext]_vars

\* the start position has increased at every iteration so far
StartIncreases ==
  \A k \in 1..(Len(chunking.starts) - 1) : chunking.starts[k] < chunking.starts[k + 1]

\* every character of the text lies in a chunk returned
EveryCharacterChunked ==
  chunking.pc = "returned" =>
    \A p \in 0..(Len(chunking.text) - 1) :
      \E c \in 1..Len(chunking.chunks) :
        chunking.chunks[c].from <= p /\ p < chunking.chunks[c].to

\* C30 (as stated): chunkText(text, chunkSize, overlap) terminates for every
\* text and every chunkSize > overlap >= 0: the start position strictly
\* increases at each iteration of its loop, so the number of chunks is finite
\* and every character of the text lies in at least one chunk.
C30_ChunkTextTerminates ==
  chunking.chunkSize > chunking.overlap => (StartIncreases /\ EveryCharacterChunked)

====
